---- MODULE Spec2Model ----
(***************************************************************************)
(* A model of the goal-oriented error estimation and metric routines:      *)
(*   goalie/error_estimation.py : form2indicator, get_dwr_indicator        *)
(*   pyroteus/metric.py         : normalisation, combination, constraints  *)
(* Every routine is a call that runs from its entry to a return or a       *)
(* raise.  A specification draws the arguments of one routine in its       *)
(* initial states and then steps through the routine's statements.         *)
(***************************************************************************)
EXTENDS Integers, Sequences, FiniteSets, TLC

VARIABLES
    pc,             \* position of the running call
    result,         \* "none" while running, else the exception name or the kind of value returned
    F,              \* get_dwr_indicator: the argument F
    adjoint_error_in, \* get_dwr_indicator: the caller's adjoint_error object
    test_space_in,  \* get_dwr_indicator: the caller's test_space object
    adjoint_error,  \* get_dwr_indicator: the local name adjoint_error (a dict once processed)
    test_space,     \* get_dwr_indicator: the local name test_space (a dict once processed)
    mapping,        \* get_dwr_indicator: the local dict mapping
    idx,            \* get_dwr_indicator: position of the loop over adjoint_error.items()
    form,           \* form2indicator: the argument F
    rhs,            \* form2indicator: the terms summed into rhs
    returned,       \* the value a metric routine returns, "none" before it returns
    d,              \* the topological dimension the routine works with
    p,              \* the argument p, the normalisation order
    target,         \* the argument target
    a,              \* determine_metric_complexity: the interior coefficient
    b,              \* determine_metric_complexity: the boundary coefficient
    roots,          \* determine_metric_complexity: the list sympy.solve returned
    metric,         \* space_normalise: the argument metric, rescaled in place
    mesh,           \* space_normalise: metric.function_space().mesh()
    global_factor,  \* space_normalise: the argument global_factor, then the factor used
    boundary,       \* space_normalise: the argument boundary
    integral,       \* space_normalise: the assembled integral, None when none is assembled
    metrics,        \* the argument metrics of the routines that take several metrics
    h_min,          \* enforce_element_constraints: the argument h_min
    h_max,          \* enforce_element_constraints: the argument h_max
    a_max,          \* enforce_element_constraints: the argument a_max
    hmin,           \* enforce_element_constraints: the loop's P1 field hmin
    hmax,           \* enforce_element_constraints: the loop's P1 field hmax
    amax,           \* enforce_element_constraints: the loop's P1 field amax
    optimise,       \* enforce_element_constraints: the argument optimise
    boundary_tag,   \* enforce_element_constraints: the argument boundary_tag
    position,       \* enforce_element_constraints: how many items zip has yielded
    call,           \* the combination routine the caller called, with its keywords
    average,        \* combine_metrics: the parameter average
    kwargs,         \* the keywords the running routine holds
    error_indicator, \* the metric constructors: the argument error_indicator(s)
    hessian         \* the metric constructors: the argument hessian(s)

indicatorVars == <<F, adjoint_error_in, test_space_in, adjoint_error, test_space,
                   mapping, idx, form, rhs>>

complexityLocals == <<a, b, roots>>

normaliseLocals == <<metric, mesh, global_factor, boundary, integral>>

constraintLocals == <<h_min, h_max, a_max, hmin, hmax, amax, optimise, boundary_tag, position>>

combineLocals == <<call, average, kwargs>>

constructorLocals == <<error_indicator, hessian>>

\* What the routines of error_estimation.py leave alone
metricVars == <<returned, d, p, target, complexityLocals, normaliseLocals,
                metrics, constraintLocals, combineLocals, constructorLocals>>

\* What determine_metric_complexity leaves alone
notComplexityVars == <<indicatorVars, normaliseLocals, metrics, constraintLocals, combineLocals,
                       constructorLocals>>

\* What space_normalise leaves alone
notNormaliseVars == <<indicatorVars, complexityLocals, metrics, constraintLocals, combineLocals,
                      constructorLocals>>

\* What enforce_element_constraints leaves alone
notConstraintVars == <<indicatorVars, d, p, target, complexityLocals, normaliseLocals,
                       combineLocals, constructorLocals>>

\* What the combination routines leave alone
notCombineVars == <<indicatorVars, d, p, target, complexityLocals, normaliseLocals,
                    constraintLocals, constructorLocals>>

\* What the metric constructors leave alone
notConstructorVars == <<indicatorVars, d, p, target, complexityLocals, normaliseLocals,
                        constraintLocals>>

vars == <<pc, result, indicatorVars, metricVars>>

(***************************************************************************)
(* Bounds of the model.                                                    *)
(***************************************************************************)
NumKeys == 2
MaxIntegrals == 3
MaxCoefficient == 2
MaxTarget == 8
MaxExponent == 1
MaxMeasure == 1

KeyNames == <<"u", "v", "w", "x", "y", "z">>
Keys == {KeyNames[i] : i \in 1..NumKeys}
Meshes == {"mesh_a", "mesh_b"}
SubdomainIds == {"everywhere", "tag_1"}

None == [kind |-> "None"]
Other == [kind |-> "other"]
Idle == [kind |-> "idle"]

(***************************************************************************)
(* Values.                                                                 *)
(***************************************************************************)
\* The integral types form2indicator reads, and one it does not (the facet
\* integrals of an extruded mesh are of their own types).
IntegralTypes == {"cell", "exterior_facet", "interior_facet", "exterior_facet_top"}

Integrals == [type : IntegralTypes, subdomain_id : SubdomainIds]

SeqsUpTo(S, n) == UNION {[1..k -> S] : k \in 0..n}

WithGeometry(m) == [kind |-> "WithGeometry", mesh |-> m]

FunctionSpaces == {WithGeometry(m) : m \in Meshes}

IsWithGeometry(x) == x.kind = "WithGeometry"

IsForm(x) == x.kind = "Form"

\* A Function: its name and the mesh of its function space.
Functions == [kind : {"Function"}, name : Keys, mesh : Meshes]

\* dict items in iteration order, the keys distinct
Injective(s) == \A i, j \in DOMAIN s : i # j => s[i].key # s[j].key

AdjointDicts ==
    {[kind |-> "dict", items |-> s] :
        s \in {t \in SeqsUpTo([key : Keys, mesh : Meshes], NumKeys) : Injective(t)}}

TestSpaceEntries == FunctionSpaces \cup {Other}

TestSpaceDicts ==
    {[kind |-> "dict", entries |-> e] :
        e \in UNION {[K -> TestSpaceEntries] : K \in SUBSET Keys}}

\* A Form: its mesh (ufl_domain), its integrals, and the substitution applied to it.
Forms ==
    [kind : {"Form"}, mesh : Meshes, integrals : SeqsUpTo(Integrals, MaxIntegrals),
     substituted : {<<>>}]

\* The 1-forms handed to get_dwr_indicator: one integral, read by form2indicator or not.
ResidualForms ==
    {f \in Forms : /\ Len(f.integrals) = 1
                   /\ f.integrals[1].subdomain_id = "everywhere"
                   /\ f.integrals[1].type \in {"cell", "exterior_facet_top"}}

(***************************************************************************)
(* form2indicator                                                          *)
(***************************************************************************)
\* F.integrals_by_type(type): positions of the integrals of that type, in the form's order
integrals_by_type(f, type) ==
    SelectSeq([i \in 1..Len(f.integrals) |-> i], LAMBDA i : f.integrals[i].type = type)

Term(f, i, measure, side) ==
    [measure |-> measure, subdomain_id |-> f.integrals[i].subdomain_id,
     side |-> side, integral |-> i]

\* rhs += h * p0test * integrand * ds(subdomain_id)
ExteriorFacetTerms(f) ==
    LET sel == integrals_by_type(f, "exterior_facet")
    IN  [k \in 1..Len(sel) |-> Term(f, sel[k], "ds", "none")]

InteriorFacetTerms_OneSide(f) ==
    LET sel == integrals_by_type(f, "interior_facet")
    IN  [k \in 1..Len(sel) |-> Term(f, sel[k], "dS", "+")]

\* rhs += h('+') * p0test('+') * integrand * dS; rhs += h('-') * p0test('-') * integrand * dS
InteriorFacetTerms(f) ==
    LET sel == integrals_by_type(f, "interior_facet")
    IN  [k \in 1..2 * Len(sel) |->
            Term(f, sel[(k + 1) \div 2], "dS", IF k % 2 = 1 THEN "+" ELSE "-")]

\* rhs += h * p0test * integrand * dx(subdomain_id)
CellTerms(f) ==
    LET sel == integrals_by_type(f, "cell")
    IN  [k \in 1..Len(sel) |-> Term(f, sel[k], "dx", "none")]

Rhs(f) == ExteriorFacetTerms(f) \o InteriorFacetTerms(f) \o CellTerms(f)

\* The whole of form2indicator.  A Form with no integral at all has no
\* integration domain: F.ufl_domain() fails on it before rhs is built.
Form2Indicator ==
    /\ pc = "form2indicator"
    /\ pc' = "done"
    /\ IF ~IsForm(form)
       THEN result' = "TypeError" /\ rhs' = rhs
       ELSE IF form.integrals = <<>>
       THEN result' = "IndexError" /\ rhs' = rhs
       ELSE /\ rhs' = Rhs(form)
            /\ result' = IF rhs' = <<>> THEN "AssertionError" ELSE "indicator"
    /\ UNCHANGED <<F, adjoint_error_in, test_space_in, adjoint_error, test_space,
                   mapping, idx, form>>
    /\ UNCHANGED metricVars

(***************************************************************************)
(* get_dwr_indicator                                                       *)
(***************************************************************************)
Raise(exception) ==
    /\ result' = exception
    /\ pc' = "done"

\* dict with the one item (key, value)
Singleton(key, value) == [k \in {key} |-> value]

\* mapping = {}; F must be a Form
CheckForm_ValueError ==
    /\ pc = "get_dwr_indicator"
    /\ mapping' = <<>>
    /\ IF ~IsForm(F)
       THEN Raise("ValueError")
       ELSE pc' = "process_adjoint_error" /\ result' = result
    /\ UNCHANGED <<F, adjoint_error_in, test_space_in, adjoint_error, test_space,
                   idx, form, rhs>>
    /\ UNCHANGED metricVars

CheckForm ==
    /\ pc = "get_dwr_indicator"
    /\ mapping' = <<>>
    /\ IF ~IsForm(F)
       THEN Raise("TypeError")
       ELSE pc' = "process_adjoint_error" /\ result' = result
    /\ UNCHANGED <<F, adjoint_error_in, test_space_in, adjoint_error, test_space,
                   idx, form, rhs>>
    /\ UNCHANGED metricVars

\* Process input for adjoint_error as a dictionary
ProcessAdjointError ==
    /\ pc = "process_adjoint_error"
    /\ IF adjoint_error.kind = "Function"
       THEN /\ test_space' =
                IF test_space = None
                THEN [kind |-> "dict",
                      entries |-> Singleton(adjoint_error.name,
                                            WithGeometry(adjoint_error.mesh))]
                ELSE test_space
            /\ adjoint_error' =
                [kind |-> "dict",
                 items |-> <<[key |-> adjoint_error.name, mesh |-> adjoint_error.mesh]>>]
            /\ pc' = "process_test_space" /\ result' = result
       ELSE IF adjoint_error.kind # "dict"
       THEN Raise("TypeError") /\ UNCHANGED <<adjoint_error, test_space>>
       ELSE /\ pc' = "process_test_space" /\ result' = result
            /\ UNCHANGED <<adjoint_error, test_space>>
    /\ UNCHANGED <<F, adjoint_error_in, test_space_in, mapping, idx, form, rhs>>
    /\ UNCHANGED metricVars

\* Process input for test_space as a dictionary
ProcessTestSpace ==
    /\ pc = "process_test_space"
    /\ IF test_space = None
       THEN /\ test_space' =
                [kind |-> "dict",
                 entries |-> [k \in {adjoint_error.items[i].key : i \in DOMAIN adjoint_error.items}
                                |-> WithGeometry(adjoint_error.items[
                                        CHOOSE i \in DOMAIN adjoint_error.items :
                                            adjoint_error.items[i].key = k].mesh)]]
            /\ pc' = "construct_mapping" /\ result' = result
       ELSE IF IsWithGeometry(test_space)
       THEN IF Len(adjoint_error.items) # 1
            THEN Raise("ValueError") /\ test_space' = test_space
            ELSE /\ test_space' =
                     [kind |-> "dict",
                      entries |-> Singleton(adjoint_error.items[1].key, test_space)]
                 /\ pc' = "construct_mapping" /\ result' = result
       ELSE IF test_space.kind # "dict"
       THEN Raise("TypeError") /\ test_space' = test_space
       ELSE pc' = "construct_mapping" /\ result' = result /\ test_space' = test_space
    /\ idx' = 1
    /\ UNCHANGED <<F, adjoint_error_in, test_space_in, adjoint_error, mapping, form, rhs>>
    /\ UNCHANGED metricVars

\* The checks of one pass of the loop over adjoint_error.items(): the exception
\* the pass raises for the item err, or "ok".
CheckComponent_KeyError(f, ts, err) ==
    IF err.key \notin DOMAIN ts.entries THEN "KeyError"
    ELSE IF ~IsWithGeometry(ts.entries[err.key]) THEN "TypeError"
    ELSE IF f.mesh # err.mesh THEN "ValueError"
    ELSE IF f.mesh # ts.entries[err.key].mesh THEN "ValueError"
    ELSE "ok"

CheckComponent_NoTestSpaceMesh(f, ts, err) ==
    IF err.key \notin DOMAIN ts.entries THEN "ValueError"
    ELSE IF ~IsWithGeometry(ts.entries[err.key]) THEN "TypeError"
    ELSE IF f.mesh # err.mesh THEN "ValueError"
    ELSE "ok"

\* The mesh of the adjoint error compared before the entry is looked at
CheckComponent_MeshFirst(f, ts, err) ==
    IF err.key \notin DOMAIN ts.entries THEN "ValueError"
    ELSE IF f.mesh # err.mesh THEN "ValueError"
    ELSE IF ~IsWithGeometry(ts.entries[err.key]) THEN "TypeError"
    ELSE IF f.mesh # ts.entries[err.key].mesh THEN "ValueError"
    ELSE "ok"

CheckComponent(f, ts, err) ==
    IF err.key \notin DOMAIN ts.entries THEN "ValueError"
    ELSE IF ~IsWithGeometry(ts.entries[err.key]) THEN "TypeError"
    ELSE IF f.mesh # err.mesh THEN "ValueError"
    ELSE IF f.mesh # ts.entries[err.key].mesh THEN "ValueError"
    ELSE "ok"

\* One pass of the loop "for key, err in adjoint_error.items()", or its end.
ConstructMapping ==
    /\ pc = "construct_mapping"
    /\ IF idx > Len(adjoint_error.items)
       THEN pc' = "apply_mapping" /\ result' = result /\ UNCHANGED <<mapping, idx>>
       ELSE LET err == adjoint_error.items[idx]
                check == CheckComponent(F, test_space, err)
            IN  IF check # "ok"
                THEN Raise(check) /\ UNCHANGED <<mapping, idx>>
                ELSE /\ mapping' = Append(mapping, [test_function |-> test_space.entries[err.key],
                                                    err |-> err])
                     /\ idx' = idx + 1
                     /\ pc' = pc /\ result' = result
    /\ UNCHANGED <<F, adjoint_error_in, test_space_in, adjoint_error, test_space, form, rhs>>
    /\ UNCHANGED metricVars

\* ufl.replace(F, mapping): the same integrals, the mapped test functions substituted
replace(f, m) == [f EXCEPT !.substituted = m]

\* return form2indicator(ufl.replace(F, mapping))
ApplyMapping ==
    /\ pc = "apply_mapping"
    /\ form' = replace(F, mapping)
    /\ pc' = "form2indicator"
    /\ UNCHANGED <<result, F, adjoint_error_in, test_space_in, adjoint_error, test_space,
                   mapping, idx, rhs>>
    /\ UNCHANGED metricVars

ComplexityIdle == a = 0 /\ b = 0 /\ roots = <<>>

NormaliseIdle ==
    /\ metric = <<>> /\ mesh = Idle /\ global_factor = Idle
    /\ boundary = FALSE /\ integral = Idle

ConstraintsIdle ==
    /\ h_min = Idle /\ h_max = Idle /\ a_max = Idle
    /\ hmin = Idle /\ hmax = Idle /\ amax = Idle
    /\ optimise = FALSE /\ boundary_tag = Idle /\ position = 0

CombineIdle == call = Idle /\ average = FALSE /\ kwargs = <<>>

ConstructorsIdle == error_indicator = Idle /\ hessian = Idle

MetricsIdle ==
    /\ returned = "none"
    /\ d = 0 /\ p = Idle /\ target = 0
    /\ ComplexityIdle
    /\ NormaliseIdle
    /\ metrics = <<>>
    /\ ConstraintsIdle
    /\ CombineIdle
    /\ ConstructorsIdle

\* A call of get_dwr_indicator(F, adjoint_error, test_space)
InitGetDwrIndicator ==
    /\ pc = "get_dwr_indicator"
    /\ F \in ResidualForms \cup {Other}
    /\ adjoint_error_in \in Functions \cup AdjointDicts \cup {Other}
    /\ test_space_in \in {None} \cup FunctionSpaces \cup TestSpaceDicts \cup {Other}
    /\ adjoint_error = adjoint_error_in
    /\ test_space = test_space_in
    /\ mapping = <<>>
    /\ idx = 1
    /\ form = Idle
    /\ rhs = <<>>
    /\ result = "none"
    /\ MetricsIdle

\* A call of form2indicator(F)
InitForm2Indicator ==
    /\ pc = "form2indicator"
    /\ form \in Forms \cup {Other}
    /\ F = Idle
    /\ adjoint_error_in = Idle
    /\ test_space_in = Idle
    /\ adjoint_error = Idle
    /\ test_space = Idle
    /\ mapping = <<>>
    /\ idx = 1
    /\ rhs = <<>>
    /\ result = "none"
    /\ MetricsIdle

InitIndicator == InitGetDwrIndicator \/ InitForm2Indicator

NextIndicator ==
    \/ CheckForm
    \/ ProcessAdjointError
    \/ ProcessTestSpace
    \/ ConstructMapping
    \/ ApplyMapping
    \/ Form2Indicator

SpecIndicator == InitIndicator /\ [][NextIndicator]_vars

(***************************************************************************)
(* The arguments of get_dwr_indicator as the caller gave them.             *)
(***************************************************************************)
DwrCall == F # Idle

Returned == pc = "done"

\* The components of the caller's adjoint_error, in iteration order
Components ==
    IF adjoint_error_in.kind = "Function"
    THEN <<[key |-> adjoint_error_in.name, mesh |-> adjoint_error_in.mesh]>>
    ELSE IF adjoint_error_in.kind = "dict" THEN adjoint_error_in.items
    ELSE <<>>

ComponentKeys == {Components[i].key : i \in DOMAIN Components}

NotForm == ~IsForm(F)
BadAdjointError == adjoint_error_in.kind \notin {"Function", "dict"}
BadTestSpace == test_space_in.kind \notin {"None", "WithGeometry", "dict"}

\* The caller's test_space has an entry for component i that is not a function space
BadEntry(i) ==
    /\ test_space_in.kind = "dict"
    /\ Components[i].key \in DOMAIN test_space_in.entries
    /\ ~IsWithGeometry(test_space_in.entries[Components[i].key])

SomeBadEntry == \E i \in DOMAIN Components : BadEntry(i)

\* The caller's test_space is a dict without an entry for component i
MissingKey(i) ==
    /\ test_space_in.kind = "dict"
    /\ Components[i].key \notin DOMAIN test_space_in.entries

\* The function space used for component i has a mesh other than F's
TestSpaceMeshDiffers(i) ==
    \/ IsWithGeometry(test_space_in) /\ test_space_in.mesh # F.mesh
    \/ /\ test_space_in.kind = "dict"
       /\ Components[i].key \in DOMAIN test_space_in.entries
       /\ IsWithGeometry(test_space_in.entries[Components[i].key])
       /\ test_space_in.entries[Components[i].key].mesh # F.mesh

AdjointErrorMeshDiffers(i) == Components[i].mesh # F.mesh

MeshMismatch ==
    \E i \in DOMAIN Components : AdjointErrorMeshDiffers(i) \/ TestSpaceMeshDiffers(i)

FirstBadEntry ==
    CHOOSE i \in DOMAIN Components : BadEntry(i) /\ \A j \in 1..(i - 1) : ~BadEntry(j)

\* A component before the first bad entry fails a ValueError check
EarlierValueFailure ==
    \E j \in 1..(FirstBadEntry - 1) :
        MissingKey(j) \/ AdjointErrorMeshDiffers(j) \/ TestSpaceMeshDiffers(j)

Malformed == NotForm \/ BadAdjointError \/ BadTestSpace \/ SomeBadEntry

(***************************************************************************)
(* C1 as stated: get_dwr_indicator raises a TypeError whenever F is not a  *)
(* Form, adjoint_error is neither a Function nor a dict, test_space is     *)
(* neither None, a function space nor a dict, or some test_space entry     *)
(* used for a component is not a function space.                           *)
(***************************************************************************)
C1_TypeErrorWheneverMalformed ==
    (Returned /\ DwrCall /\ Malformed) => result = "TypeError"

(***************************************************************************)
(* C1 amended: on such arguments get_dwr_indicator raises and produces no  *)
(* indicator.  The exception is a TypeError when F, adjoint_error or       *)
(* test_space is of the wrong type; when only a test_space entry is not a  *)
(* function space it is a TypeError unless a component earlier in          *)
(* iteration order has no test_space entry or a mesh that differs from     *)
(* F's, and then it is a ValueError.                                       *)
(***************************************************************************)
C1_MalformedRaises ==
    (Returned /\ DwrCall /\ Malformed) =>
        /\ result \in {"TypeError", "ValueError"}
        /\ (NotForm \/ BadAdjointError \/ BadTestSpace) => result = "TypeError"
        /\ (~(NotForm \/ BadAdjointError \/ BadTestSpace) /\ SomeBadEntry) =>
              result = IF EarlierValueFailure THEN "ValueError" ELSE "TypeError"

\* Two components, the second one's test_space entry is no function space, a TypeError
C1_Witness ==
    /\ Returned /\ DwrCall /\ IsForm(F)
    /\ Len(Components) = 2 /\ ~BadEntry(1) /\ BadEntry(2)
    /\ result = "TypeError"

(***************************************************************************)
(* C2 as stated, for a Form F, at least one component and test_space       *)
(* entries that are all function spaces: with adjoint_error and test_space *)
(* both mappings, a ValueError whenever the two key sets differ; a single  *)
(* function space with an adjoint_error mapping of more than one component *)
(* is a ValueError too.                                                    *)
(***************************************************************************)
BothMappings == adjoint_error_in.kind = "dict" /\ test_space_in.kind = "dict"

AllEntriesFunctionSpaces ==
    \A k \in DOMAIN test_space_in.entries : IsWithGeometry(test_space_in.entries[k])

C2_ValueErrorWheneverKeySetsDiffer ==
    (Returned /\ DwrCall /\ IsForm(F)) =>
        /\ (BothMappings /\ AllEntriesFunctionSpaces /\ Components # <<>>
                /\ ComponentKeys # DOMAIN test_space_in.entries) => result = "ValueError"
        /\ (adjoint_error_in.kind = "dict" /\ IsWithGeometry(test_space_in)
                /\ Len(Components) > 1) => result = "ValueError"

(***************************************************************************)
(* C2 amended: for a Form F, with adjoint_error and test_space both        *)
(* mappings, a ValueError whenever some adjoint_error component has no     *)
(* entry in test_space and every test_space entry used for a component is  *)
(* a function space.  Entries of test_space that belong to no component of *)
(* adjoint_error are ignored: when every component has an entry that is a  *)
(* function space on F's mesh, and its field is on F's mesh, the checks    *)
(* pass and form2indicator is called.  A single function space given with  *)
(* an adjoint_error mapping that has not exactly one component is a        *)
(* ValueError.                                                             *)
(***************************************************************************)
C2_MissingKeyIsValueError ==
    (Returned /\ DwrCall /\ IsForm(F)) =>
        /\ (BothMappings /\ ~SomeBadEntry /\ (\E i \in DOMAIN Components : MissingKey(i)))
              => result = "ValueError"
        /\ (BothMappings /\ ~SomeBadEntry /\ ~MeshMismatch
                /\ ComponentKeys \subseteq DOMAIN test_space_in.entries)
              => (form = replace(F, mapping) /\ Len(mapping) = Len(Components)
                  /\ result \in {"indicator", "AssertionError"})
        /\ (adjoint_error_in.kind = "dict" /\ IsWithGeometry(test_space_in)
                /\ Len(Components) # 1) => result = "ValueError"

\* test_space has an entry more than adjoint_error has components, and an indicator is returned
C2_Witness ==
    /\ Returned /\ DwrCall /\ BothMappings
    /\ ComponentKeys # {}
    /\ ComponentKeys \subseteq DOMAIN test_space_in.entries
    /\ ComponentKeys # DOMAIN test_space_in.entries
    /\ result = "indicator"

(***************************************************************************)
(* C3 as stated, for a Form F: a ValueError whenever the mesh of F differs *)
(* from the mesh of any adjoint_error component or of the test space used  *)
(* for any component, and an indicator only when they all share one mesh.  *)
(***************************************************************************)
C3_ValueErrorWheneverMeshesDiffer ==
    (Returned /\ DwrCall /\ IsForm(F)) =>
        /\ MeshMismatch => result = "ValueError"
        /\ result = "indicator" => ~MeshMismatch

(***************************************************************************)
(* C3 amended: for a Form F, an adjoint_error that is a Function or a dict *)
(* and a test_space that is None, a function space or a dict whose entries *)
(* used for components are all function spaces, a ValueError whenever the  *)
(* mesh of F differs from the mesh of any adjoint_error component or of    *)
(* the test space used for any component; an indicator is returned only    *)
(* when F, every component and every used test space share one mesh.       *)
(***************************************************************************)
C3_MeshMismatchIsValueError ==
    (Returned /\ DwrCall /\ IsForm(F)) =>
        /\ (~BadTestSpace /\ ~SomeBadEntry /\ MeshMismatch) => result = "ValueError"
        /\ result = "indicator" =>
              /\ ~MeshMismatch
              /\ \A i \in DOMAIN Components : ~MissingKey(i) /\ ~BadEntry(i)

\* The first component passes, the second one's test space is on another mesh
C3_Witness ==
    /\ Returned /\ DwrCall /\ IsForm(F) /\ BothMappings /\ ~SomeBadEntry
    /\ Len(Components) = 2
    /\ ~AdjointErrorMeshDiffers(1) /\ ~TestSpaceMeshDiffers(1) /\ ~MissingKey(1)
    /\ ~AdjointErrorMeshDiffers(2) /\ TestSpaceMeshDiffers(2)
    /\ Len(mapping) = 1
    /\ result = "ValueError"

(***************************************************************************)
(* C4: form2indicator raises a TypeError for a non-Form; it fails for      *)
(* every Form without a cell, exterior-facet or interior-facet integral;   *)
(* for any other Form rhs has exactly one term per cell integral and per   *)
(* exterior-facet integral and exactly two, one per side, per              *)
(* interior-facet integral, each on the subdomain id of its integral.      *)
(***************************************************************************)
ReadTypes == {"cell", "exterior_facet", "interior_facet"}

HasReadIntegral(f) == \E i \in DOMAIN f.integrals : f.integrals[i].type \in ReadTypes

TermsFrom(i) == {k \in DOMAIN rhs : rhs[k].integral = i}

C4_Form2IndicatorTerms ==
    (Returned /\ form # Idle) =>
        /\ ~IsForm(form) => result = "TypeError"
        /\ (IsForm(form) /\ ~HasReadIntegral(form)) =>
              (result \in {"AssertionError", "IndexError"} /\ rhs = <<>>)
        /\ (IsForm(form) /\ HasReadIntegral(form)) =>
              /\ result = "indicator"
              /\ \A k \in DOMAIN rhs : rhs[k].integral \in DOMAIN form.integrals
              /\ \A i \in DOMAIN form.integrals :
                    LET found == form.integrals[i]
                    IN  /\ \A k \in TermsFrom(i) :
                              rhs[k].subdomain_id = found.subdomain_id
                        /\ found.type = "cell" =>
                              /\ Cardinality(TermsFrom(i)) = 1
                              /\ \A k \in TermsFrom(i) : rhs[k].measure = "dx"
                        /\ found.type = "exterior_facet" =>
                              /\ Cardinality(TermsFrom(i)) = 1
                              /\ \A k \in TermsFrom(i) : rhs[k].measure = "ds"
                        /\ found.type = "interior_facet" =>
                              /\ Cardinality(TermsFrom(i)) = 2
                              /\ {rhs[k].side : k \in TermsFrom(i)} = {"+", "-"}
                              /\ \A k \in TermsFrom(i) : rhs[k].measure = "dS"
                        /\ found.type \notin ReadTypes => TermsFrom(i) = {}

\* An interior-facet integral and a cell integral on different subdomains give three terms
C4_Witness ==
    /\ Returned /\ F = Idle /\ IsForm(form) /\ result = "indicator"
    /\ Len(form.integrals) = 2 /\ Len(rhs) = 3
    /\ \E i, j \in DOMAIN form.integrals :
          /\ form.integrals[i].type = "interior_facet"
          /\ form.integrals[j].type = "cell"
          /\ form.integrals[i].subdomain_id # form.integrals[j].subdomain_id

(***************************************************************************)
(* pyroteus/metric.py                                                      *)
(***************************************************************************)
IndicatorIdle ==
    /\ F = Idle /\ adjoint_error_in = Idle /\ test_space_in = Idle
    /\ adjoint_error = Idle /\ test_space = Idle
    /\ mapping = <<>> /\ idx = 1 /\ form = Idle /\ rhs = <<>>

\* The normalisation order p: 'inf' or a number
Inf == [inf |-> TRUE, value |-> 0]
Order(n) == [inf |-> FALSE, value |-> n]
Orders == {Inf, Order(0), Order(1), Order(2)}

RECURSIVE Pow(_, _)
Pow(x, n) == IF n = 0 THEN 1 ELSE x * Pow(x, n - 1)

(***************************************************************************)
(* determine_metric_complexity                                             *)
(*                                                                         *)
(* The coefficients a and b are integrals of powers of determinants and so *)
(* are not negative.  sympy.solve returns the solutions c, over the        *)
(* complex numbers, of  a*c^(d/2) + b*c^((d-1)/2) = target  with the       *)
(* principal branch of the powers.  With s the principal square root of c  *)
(* this is  a*s^d + b*s^(d-1) = target  for s in the closed right half     *)
(* plane, which has                                                        *)
(*   - for target >= 0 and a + b > 0: the one solution c = u^2, u >= 0     *)
(*     real (the other roots s are negative or have a negative real part); *)
(*   - for target < 0, d = 2: c = target/a if b = 0, and none if b > 0;    *)
(*   - for target < 0, d = 3: c = target/b if a = 0, and two conjugate     *)
(*     non-real solutions if a > 0;                                        *)
(*   - for a = b = 0 and target # 0: none.                                 *)
(* The arguments are kept to those whose real solutions are integers.      *)
(***************************************************************************)
Real(c) == [kind |-> "real", value |-> c]
NonReal(n) == [kind |-> "nonreal", value |-> n]

\* c is a real solution of a*c^(d/2) + b*c^((d-1)/2) = t
IsRealSolution(dim, ca, cb, t, c) ==
    IF c >= 0
    THEN \E u \in 0..MaxTarget : u * u = c /\ ca * Pow(u, dim) + cb * Pow(u, dim - 1) = t
    ELSE \/ dim = 2 /\ cb = 0 /\ ca * c = t
         \/ dim = 3 /\ ca = 0 /\ cb * c = t

RealSolutions(dim, ca, cb, t) ==
    {c \in (-MaxTarget)..(MaxTarget * MaxTarget) : IsRealSolution(dim, ca, cb, t, c)}

HasNonRealSolutions(dim, ca, cb, t) == dim = 3 /\ ca > 0 /\ t < 0

\* The arguments whose solutions the model represents exactly
ExactlySolvable(dim, ca, cb, t) ==
    \/ t >= 0 /\ ca + cb > 0 /\ RealSolutions(dim, ca, cb, t) # {}
    \/ ca = 0 /\ cb = 0 /\ t # 0
    \/ t < 0 /\ dim = 2 /\ cb > 0
    \/ t < 0 /\ dim = 2 /\ cb = 0 /\ ca > 0 /\ RealSolutions(dim, ca, cb, t) # {}
    \/ t < 0 /\ dim = 3 /\ ca = 0 /\ cb > 0 /\ RealSolutions(dim, ca, cb, t) # {}
    \/ t < 0 /\ dim = 3 /\ ca > 0

Ascending(S) ==
    CHOOSE s \in [1..Cardinality(S) -> S] : \A i, j \in 1..Cardinality(S) : i < j => s[i] < s[j]

\* sympy.solve(a*pow(c, d/2) + b*pow(c, (d-1)/2) - target, c)
solve(dim, ca, cb, t) ==
    LET reals == Ascending(RealSolutions(dim, ca, cb, t))
    IN  [i \in DOMAIN reals |-> Real(reals[i])]
        \o (IF HasNonRealSolutions(dim, ca, cb, t) THEN <<NonReal(1), NonReal(2)>> ELSE <<>>)

\* d = topological_dimension(); assert d in (2, 3); p == 'inf' is not implemented
ComplexityCheck ==
    /\ pc = "determine_metric_complexity"
    /\ IF d \notin {2, 3} THEN Raise("AssertionError")
       ELSE IF p.inf THEN Raise("NotImplementedError")
       ELSE pc' = "assemble_coefficients" /\ result' = result
    /\ UNCHANGED <<returned, d, p, target, a, b, roots, notComplexityVars>>

\* Compute coefficients for the algebraic problem
AssembleCoefficients ==
    /\ pc = "assemble_coefficients"
    /\ \E ca, cb \in 0..MaxCoefficient :
          /\ ExactlySolvable(d, ca, cb, target)
          /\ a' = ca
          /\ b' = cb
    /\ pc' = "solve"
    /\ UNCHANGED <<result, returned, d, p, target, roots, notComplexityVars>>

\* Solve algebraic problem
SolveAlgebraicProblem ==
    /\ pc = "solve"
    /\ roots' = solve(d, a, b, target)
    /\ pc' = "select_root"
    /\ UNCHANGED <<result, returned, d, p, target, a, b, notComplexityVars>>

\* len(c) == 0 and len(c) > 1 are ValueErrors, else float(c[0]) is returned
SelectRoot ==
    /\ pc = "select_root"
    /\ IF Len(roots) = 0
       THEN Raise("ValueError") /\ returned' = returned
       ELSE IF Len(roots) > 1
       THEN Raise("ValueError") /\ returned' = returned
       ELSE IF roots[1].kind # "real"
       THEN Raise("TypeError") /\ returned' = returned
       ELSE returned' = roots[1].value /\ result' = "float" /\ pc' = "done"
    /\ UNCHANGED <<d, p, target, a, b, roots, notComplexityVars>>

\* A call of determine_metric_complexity(H_interior, H_boundary, target, p)
InitComplexity ==
    /\ pc = "determine_metric_complexity"
    /\ d \in 1..3
    /\ p \in Orders
    /\ target \in (-MaxTarget)..MaxTarget
    /\ a = 0 /\ b = 0 /\ roots = <<>>
    /\ returned = "none"
    /\ result = "none"
    /\ IndicatorIdle
    /\ NormaliseIdle
    /\ metrics = <<>> /\ ConstraintsIdle /\ CombineIdle /\ ConstructorsIdle

NextComplexity ==
    \/ ComplexityCheck
    \/ AssembleCoefficients
    \/ SolveAlgebraicProblem
    \/ SelectRoot

SpecComplexity == InitComplexity /\ [][NextComplexity]_vars

PositiveRealRoots == {c \in RealSolutions(d, a, b, target) : c > 0}

(***************************************************************************)
(* C5: determine_metric_complexity, for d in {2, 3} and finite p, returns  *)
(* the root when the equation has exactly one positive real root, whatever *)
(* other roots it has, and raises a ValueError when it has no positive     *)
(* real root or more than one; for p = 'inf' it raises NotImplementedError.*)
(***************************************************************************)
C5_ReturnsThePositiveRoot ==
    (Returned /\ d \in {2, 3}) =>
        IF p.inf THEN result = "NotImplementedError"
        ELSE IF Cardinality(PositiveRealRoots) = 1
        THEN result = "float" /\ returned \in PositiveRealRoots
        ELSE result = "ValueError"

(***************************************************************************)
(* space_normalise and metric_complexity                                   *)
(*                                                                         *)
(* Exact arithmetic on the positive reals 2^q, q rational: a quantity is   *)
(* held as its exponent q, so that a product adds exponents and a power    *)
(* multiplies the exponent.  A metric is spatially constant and SPD and is *)
(* held as the tuple of its eigenvalues: a scalar multiple of it has the   *)
(* same eigenvectors, and its determinant is the product of the            *)
(* eigenvalues.  The mesh gives its topological dimension and the measures *)
(* of the domain (dx) and of its boundary (ds).                            *)
(***************************************************************************)
RECURSIVE GCD(_, _)
GCD(x, y) == IF y = 0 THEN x ELSE GCD(y, x % y)

Abs(x) == IF x < 0 THEN -x ELSE x

\* The rational n/m, m > 0, in lowest terms
Rational(n, m) ==
    LET g == GCD(Abs(n), m) IN [num |-> n \div g, den |-> m \div g]

Sum(x, y) == Rational(x.num * y.den + y.num * x.den, x.den * y.den)
Product(x, y) == Rational(x.num * y.num, x.den * y.den)
Negative(x) == [num |-> -x.num, den |-> x.den]

One == Rational(0, 1)
mul(x, y) == Sum(x, y)
div(x, y) == Sum(x, Negative(y))
\* pow(x, r) for a rational number r
pow(x, r) == Product(r, x)
sqrt(x) == pow(x, Rational(1, 2))

PowersOfTwo(lo, hi) == {Rational(k, 1) : k \in lo..hi}

RECURSIVE det(_)
det(M) == IF M = <<>> THEN One ELSE mul(Head(M), det(Tail(M)))

\* global_factor*determinant*metric: every eigenvalue is multiplied by the scalar
scale(x, M) == [i \in DOMAIN M |-> mul(x, M[i])]

\* firedrake.assemble(f*dX) of a constant f
assemble(f, msh, onBoundary) == mul(f, IF onBoundary THEN msh.ds ELSE msh.dx)

metric_complexity(M, msh, onBoundary) == assemble(sqrt(det(M)), msh, onBoundary)

Meshes2d3d ==
    [dim : {2, 3}, dx : PowersOfTwo(0, MaxMeasure), ds : PowersOfTwo(0, MaxMeasure)]

Metrics(dim) == [1..dim -> PowersOfTwo(-MaxExponent, MaxExponent)]

\* assert p == 'inf' or p >= 1.0; d is the dimension, less one on the boundary
NormaliseCheck ==
    /\ pc = "space_normalise"
    /\ IF ~(p.inf \/ p.value >= 1)
       THEN Raise("AssertionError") /\ d' = d
       ELSE /\ d' = IF boundary THEN mesh.dim - 1 ELSE mesh.dim
            /\ pc' = "global_factor" /\ result' = result
    /\ UNCHANGED <<returned, p, target, normaliseLocals, notNormaliseVars>>

\* pow(detM, 0.5 if p == 'inf' else p/(2*p + d))
IntegrandExponent(order, dd) ==
    IF order.inf THEN Rational(1, 2) ELSE Rational(order.value, 2 * order.value + dd)

GlobalFactor_NoRoot(t, assembled, dd, msh) == div(t, assembled)

\* firedrake.Constant(pow(target/integral, 2/d))
GlobalFactor(t, assembled, dd, msh) == pow(div(t, assembled), Rational(2, dd))

\* Compute global normalisation factor
ComputeGlobalFactor ==
    /\ pc = "global_factor"
    /\ IF global_factor = None
       THEN /\ integral' = assemble(pow(det(metric), IntegrandExponent(p, d)), mesh, boundary)
            /\ global_factor' = GlobalFactor(target, integral', d, mesh)
       ELSE UNCHANGED <<integral, global_factor>>
    /\ pc' = "normalise"
    /\ UNCHANGED <<result, returned, d, p, target, metric, mesh, boundary, notNormaliseVars>>

\* determinant = 1 if p == 'inf' else pow(ufl.det(metric), -1/(2*p + d))
Determinant(M, order, dd) ==
    IF order.inf THEN One ELSE pow(det(M), Rational(-1, 2 * order.value + dd))

\* Normalise
Normalise ==
    /\ pc = "normalise"
    /\ metric' = scale(mul(global_factor, Determinant(metric, p, d)), metric)
    /\ returned' = metric'
    /\ result' = "metric"
    /\ pc' = "done"
    /\ UNCHANGED <<d, p, target, mesh, global_factor, boundary, integral, notNormaliseVars>>

\* A call of space_normalise(metric, target, p, global_factor, boundary)
InitNormalise ==
    /\ pc = "space_normalise"
    /\ mesh \in Meshes2d3d
    /\ metric \in Metrics(mesh.dim)
    /\ target \in PowersOfTwo(0, MaxExponent)
    /\ p \in Orders
    /\ global_factor \in {None, Rational(1, 1)}
    /\ boundary \in BOOLEAN
    /\ integral = None
    /\ d = 0
    /\ returned = "none"
    /\ result = "none"
    /\ IndicatorIdle
    /\ ComplexityIdle
    /\ metrics = <<>> /\ ConstraintsIdle /\ CombineIdle /\ ConstructorsIdle

NextNormalise ==
    \/ NormaliseCheck
    \/ ComputeGlobalFactor
    \/ Normalise

SpecNormalise == InitNormalise /\ [][NextNormalise]_vars

(***************************************************************************)
(* C6: for an SPD metric, a positive target and p 'inf' or >= 1,           *)
(* space_normalise without a precomputed global_factor and with            *)
(* boundary=False leaves metric_complexity(metric) equal to target.        *)
(***************************************************************************)
C6_ComplexityIsTarget ==
    (Returned /\ result = "metric" /\ integral # None /\ ~boundary) =>
        metric_complexity(metric, mesh, FALSE) = target

\* An anisotropic metric was rescaled by a factor other than one, for finite p
C6_Witness ==
    /\ Returned /\ result = "metric" /\ integral # None /\ ~boundary
    /\ ~p.inf
    /\ metric[1] # metric[2]
    /\ mul(global_factor, Determinant(metric, p, d)) # One
    /\ mesh.dx # One

(***************************************************************************)
(* C7: with boundary=True, space_normalise rescales the metric so that     *)
(* metric_complexity(metric, boundary=True) equals target.                 *)
(***************************************************************************)
C7_BoundaryComplexityIsTarget ==
    (Returned /\ result = "metric" /\ integral # None /\ boundary) =>
        metric_complexity(metric, mesh, TRUE) = target

(***************************************************************************)
(* enforce_element_constraints (src/pyroteus/metric.py).                   *)
(* A P1 field is held by its values at the vertices; two vertices tell     *)
(* "at every vertex" from "at some vertex".  Sizes are whole numbers.      *)
(***************************************************************************)
MaxMetrics == 2
MaxSize == 2

Vertices == {"v1", "v2"}

\* Element sizes, and anisotropies
Sizes == 0..MaxSize

Anisotropies == 1..MaxSize

\* A number given for a bound
Number(x) == [kind |-> "number", value |-> x]

\* A Function given for a bound; clement_interpolant turns it into the P1 field
Function(f) == [kind |-> "Function", P1 |-> f]

\* A sequence of bounds, one per metric; zip reads each item once, when it
\* gets there, so an item is drawn when it is read
PerMetric(n) == [kind |-> "sequence", length |-> n]

\* [x]*n
Repeat(x, n) == [kind |-> "list", of |-> x, length |-> n]

\* isinstance(x, Iterable)
IsIterable(x) == x.kind \in {"sequence", "list"}

\* The metric at place i of the caller's collection, not yet clamped
Metric(i) == [kind |-> "Function", name |-> i, clamped |-> 0, node_set |-> "none"]

\* A list of metrics
List(items) == [kind |-> "list", items |-> items]

MetricList(n) == List([i \in 1..n |-> Metric(i)])

\* isinstance(metrics, Function)
IsFunction(x) == x.kind = "Function"

\* A boundary tag
Tag(i) == [kind |-> "tag", id |-> i]

\* metric.py:302-309
WrapArguments ==
    /\ pc = "enforce_element_constraints"
    /\ LET list == IF IsFunction(metrics) THEN List(<<metrics>>) ELSE metrics
           wrap(x) == IF ~IsIterable(x) THEN Repeat(x, Len(list.items)) ELSE x
       IN  /\ metrics' = list
           /\ h_min' = wrap(h_min)
           /\ h_max' = wrap(h_max)
           /\ a_max' = wrap(a_max)
    /\ pc' = "next_metric"
    /\ UNCHANGED <<result, returned, hmin, hmax, amax, optimise, boundary_tag, position,
                   notConstraintVars>>

\* The item zip took from x, which the loop body has not looked at yet
Unread == [kind |-> "item"]

\* The for statement takes the next tuple from zip, or the loop ends and the
\* metrics are returned; metric.py:310-312 and 339
NextMetric ==
    /\ pc = "next_metric"
    /\ IF \E n \in {Len(metrics.items), h_min.length, h_max.length, a_max.length} :
            position >= n
       THEN /\ returned' = metrics
            /\ result' = "metrics"
            /\ pc' = "done"
            /\ UNCHANGED <<hmin, hmax, amax, position>>
       ELSE /\ hmin' = Unread /\ hmax' = Unread /\ amax' = Unread
            /\ position' = position + 1
            /\ pc' = "interpolate_hmin"
            /\ UNCHANGED <<result, returned>>
    /\ UNCHANGED <<metrics, h_min, h_max, a_max, optimise, boundary_tag, notConstraintVars>>

\* The items x can hold at the place the loop is at
ItemsOf(x, sizes) ==
    IF x.kind = "list" THEN {x.of}
    ELSE {Number(n) : n \in sizes} \cup {Function(f) : f \in [Vertices -> sizes]}

\* (clement_interpolant if isinstance(x, Function) else Function(P1).assign)(x)
InterpolateIntoP1(x) ==
    IF x.kind = "Function" THEN x.P1 ELSE [v \in Vertices |-> x.value]

\* metric.py:316
InterpolateHmin ==
    /\ pc = "interpolate_hmin"
    /\ \E x \in ItemsOf(h_min, Sizes) : hmin' = InterpolateIntoP1(x)
    /\ pc' = "interpolate_hmax"
    /\ UNCHANGED <<result, returned, metrics, h_min, h_max, a_max, hmax, amax, optimise,
                   boundary_tag, position, notConstraintVars>>

\* metric.py:317
InterpolateHmax ==
    /\ pc = "interpolate_hmax"
    /\ \E x \in ItemsOf(h_max, Sizes) : hmax' = InterpolateIntoP1(x)
    /\ pc' = "interpolate_amax"
    /\ UNCHANGED <<result, returned, metrics, h_min, h_max, a_max, hmin, amax, optimise,
                   boundary_tag, position, notConstraintVars>>

\* metric.py:318
InterpolateAmax ==
    /\ pc = "interpolate_amax"
    /\ \E x \in ItemsOf(a_max, Anisotropies) : amax' = InterpolateIntoP1(x)
    /\ pc' = "check_values"
    /\ UNCHANGED <<result, returned, metrics, h_min, h_max, a_max, hmin, hmax, optimise,
                   boundary_tag, position, notConstraintVars>>

\* f.vector().gather().min()
MinOf(f) == CHOOSE x \in {f[v] : v \in Vertices} : \A v \in Vertices : x <= f[v]

\* assemble(conditional(hi < lo, 1, 0)*dx) is 0: two P1 fields are ordered on
\* a set of measure zero at most exactly when they are ordered so at no vertex
NowhereBelow(hi, lo) == \A v \in Vertices : ~(hi[v] < lo[v])

\* The four assertions of metric.py:322-327
ValuesAreOkay(lo, hi, an) ==
    /\ MinOf(lo) > 0
    /\ MinOf(hi) > MinOf(lo)
    /\ NowhereBelow(hi, lo)
    /\ MinOf(an) > 1

\* metric.py:320-327
CheckValues ==
    /\ pc = "check_values"
    /\ IF ~optimise /\ ~ValuesAreOkay(hmin, hmax, amax)
       THEN Raise("AssertionError")
       ELSE pc' = "enforce_constraints" /\ result' = result
    /\ UNCHANGED <<returned, metrics, constraintLocals, notConstraintVars>>

\* The metric left as it is
Clamp_Skip(m, tag) == m

\* The par_loop run twice
Clamp_Twice(m, tag) == [m EXCEPT !.clamped = @ + 2]

\* op2.par_loop run once more on metric m, over the node set chosen by tag
Clamp(m, tag) ==
    [m EXCEPT !.clamped = @ + 1,
              !.node_set = IF tag = None THEN "fs.node_set" ELSE "DirichletBC.node_set"]

\* metric.py:329-338
EnforceConstraints ==
    /\ pc = "enforce_constraints"
    /\ metrics' = [metrics EXCEPT !.items[position] = Clamp(@, boundary_tag)]
    /\ pc' = "next_metric"
    /\ UNCHANGED <<result, returned, constraintLocals, notConstraintVars>>

\* A call of enforce_element_constraints(metrics, h_min, h_max, a_max,
\* boundary_tag, optimise), with one bound per metric where bounds come in a
\* sequence
InitConstraints ==
    /\ pc = "enforce_element_constraints"
    /\ \E n \in 0..MaxMetrics :
        /\ metrics \in {MetricList(n)} \cup (IF n = 1 THEN {Metric(1)} ELSE {})
        /\ h_min \in {Number(x) : x \in Sizes} \cup {PerMetric(n)}
        /\ h_max \in {Number(x) : x \in Sizes} \cup {PerMetric(n)}
        /\ a_max \in {Number(x) : x \in Anisotropies} \cup {PerMetric(n)}
    /\ optimise \in BOOLEAN
    /\ boundary_tag \in {None, Tag(1)}
    /\ hmin = Idle /\ hmax = Idle /\ amax = Idle
    /\ position = 0
    /\ call = [routine |-> "enforce_element_constraints", metrics |-> metrics]
    /\ average = FALSE /\ kwargs = <<>>
    /\ returned = "none"
    /\ result = "none"
    /\ d = 0 /\ p = Idle /\ target = 0
    /\ IndicatorIdle /\ ComplexityIdle /\ NormaliseIdle /\ ConstructorsIdle

NextConstraints ==
    \/ WrapArguments
    \/ NextMetric
    \/ InterpolateHmin
    \/ InterpolateHmax
    \/ InterpolateAmax
    \/ CheckValues
    \/ EnforceConstraints

SpecConstraints == InitConstraints /\ [][NextConstraints]_vars

\* Some bound of the metric at hand breaks, at some vertex, what the routine
\* requires of it
BoundsBreak ==
    \E v \in Vertices : hmin[v] <= 0 \/ hmax[v] <= hmin[v] \/ amax[v] <= 1

\* The bounds of a metric have been read, and checked unless optimise is set
BoundsChecked ==
    /\ hmin \notin {Idle, Unread}
    /\ pc \in {"enforce_constraints", "next_metric", "done"}

(***************************************************************************)
(* C8: with optimise unset, enforce_element_constraints fails with an      *)
(* assertion whenever, at some vertex, h_min <= 0 or h_max <= h_min or     *)
(* a_max <= 1, and reaches the clamping of a metric only when h_min > 0,   *)
(* h_max > h_min and a_max > 1 hold at every vertex; with optimise set it  *)
(* never fails with an assertion.                                          *)
(***************************************************************************)
C8_AssertsAtEveryVertex ==
    /\ (~optimise /\ BoundsChecked /\ BoundsBreak) =>
            (Returned /\ result = "AssertionError")
    /\ (~optimise /\ pc = "enforce_constraints") => ~BoundsBreak
    /\ optimise => result # "AssertionError"

(***************************************************************************)
(* combine_metrics, metric_relaxation, metric_average and                  *)
(* metric_intersection (src/pyroteus/metric.py).  The metrics are          *)
(* Functions, named by their place among the arguments; a combined metric  *)
(* is held as the combination that was computed, not as numbers.           *)
(***************************************************************************)

\* A tensor function space on a mesh of the given dimension
TensorSpace(dim) == [kind |-> "FunctionSpace", dim |-> dim]

TensorSpaces == {TensorSpace(dim) : dim \in 1..3}

\* The metric at place i of *metrics
TensorFunction(i, V) == [kind |-> "Function", name |-> i, space |-> V]

MetricTuples ==
    UNION {{[i \in 1..n |-> TensorFunction(i, spaces[i])] : spaces \in [1..n -> TensorSpaces]} :
                n \in 0..MaxMetrics}

\* A keyword the caller did not supply
Absent == [kind |-> "absent"]

True == [kind |-> "bool", value |-> TRUE]
False == [kind |-> "bool", value |-> FALSE]

Keywords == {"weights", "function_space", "boundary_tag", "unexpected"}

WeightLists ==
    {List(w) : w \in UNION {[1..n -> {Rational(1, 1), Rational(1, 2)}] : n \in 0..MaxMetrics}}

\* The keywords of a call, apart from average
KeywordArguments ==
    [weights : {Absent, None} \cup WeightLists,
     function_space : {Absent, None} \cup TensorSpaces,
     boundary_tag : {Absent, None, List(<<>>), Tag(1)},
     unexpected : {Absent, None}]

\* k in kwargs
Supplied(kw) == {k \in Keywords : kw[k] # Absent}

\* kwargs.pop(k), kwargs being what is left
Pop_Keep(kw, k) == kw

Pop(kw, k) == [kw EXCEPT ![k] = Absent]

\* The value the parameter k is bound to; every default is None
Parameter(kw, k) == IF kw[k] = Absent THEN None ELSE kw[k]

Failure(exception) == [result |-> exception, returned |-> "none"]

Success(value) == [result |-> "metric", returned |-> value]

\* bool(x) of None or a list
Truthy(x) == x # None /\ (x.kind = "list" => Len(x.items) > 0)

\* np.ones(n)/n
UniformWeights(n) == List([i \in 1..n |-> Rational(1, n)])

\* firedrake.interpolate(m, V)
interpolate(m, V) == [kind |-> "Function", name |-> m.name, space |-> V]

\* Some metric has to be interpolated, and there is no function_space to
\* interpolate it into: firedrake.interpolate(metric, None) fails
NothingToInterpolateInto(ms, fs, function_space) ==
    function_space = None /\ \E i \in 1..Len(ms) : ms[i].space # fs

\* weights = weights or np.ones(n)/n, with the spelling of Python's "or"
WeightsOrUniform(weights, n) == IF Truthy(weights) THEN weights ELSE UniformWeights(n)

\* metric_relaxation(*ms, **kw); metric.py:464-486
metric_relaxation(ms, kw) ==
    IF ~(Supplied(kw) \subseteq {"weights", "function_space"}) THEN Failure("TypeError")
    ELSE
    LET n == Len(ms)
        function_space == Parameter(kw, "function_space")
    IN  IF ~(n > 0) THEN Failure("AssertionError")
        ELSE
        LET weights == WeightsOrUniform(Parameter(kw, "weights"), n)
            fs == IF function_space # None THEN function_space ELSE ms[1].space
        IN  IF Len(weights.items) # n THEN Failure("ValueError")
            ELSE IF NothingToInterpolateInto(ms, fs, function_space)
            THEN Failure("InterpolationError")
            ELSE Success([kind |-> "Function",
                          space |-> fs,
                          sum |-> [i \in 1..n |->
                                    [weight |-> weights.items[i],
                                     metric |-> IF ms[i].space # fs
                                                THEN interpolate(ms[i], function_space)
                                                ELSE ms[i]]]])

\* metric_intersection(*ms, **kw); metric.py:501-536
metric_intersection(ms, kw) ==
    IF ~(Supplied(kw) \subseteq {"function_space", "boundary_tag"}) THEN Failure("TypeError")
    ELSE
    LET n == Len(ms)
        function_space == Parameter(kw, "function_space")
        tag == Parameter(kw, "boundary_tag")
    IN  IF ~(n > 0) THEN Failure("AssertionError")
        ELSE
        LET fs == IF function_space # None THEN function_space ELSE ms[1].space
        IN  IF NothingToInterpolateInto(ms, fs, function_space)
            THEN Failure("InterpolationError")
            ELSE IF tag = List(<<>>) THEN Failure("ValueError")
            ELSE IF fs.dim \notin {2, 3} THEN Failure("AssertionError")
            ELSE Success([kind |-> "Function",
                          space |-> ms[1].space,
                          copy_of |-> ms[1],
                          intersected_with |-> SubSeq(ms, 2, n),
                          node_set |-> IF tag = None THEN "fs.node_set"
                                       ELSE "DirichletBC.node_set"])

\* The running routine returns what the routine it has called returns
Return(outcome) ==
    /\ result' = outcome.result
    /\ returned' = outcome.returned
    /\ pc' = "done"

\* metric.py:539-552, up to the call it ends with
CombineMetrics ==
    /\ pc = "combine_metrics"
    /\ IF average
       THEN /\ kwargs' = IF "boundary_tag" \in Supplied(kwargs)
                         THEN Pop(kwargs, "boundary_tag") ELSE kwargs
            /\ pc' = "metric_relaxation"
       ELSE /\ kwargs' = IF "weights" \in Supplied(kwargs)
                         THEN Pop(kwargs, "weights") ELSE kwargs
            /\ pc' = "metric_intersection"
    /\ UNCHANGED <<result, returned, metrics, call, average, notCombineVars>>

\* metric.py:489-497, up to the call it ends with
MetricAverage ==
    /\ pc = "metric_average"
    /\ IF ~(Supplied(kwargs) \subseteq {"function_space"})
       THEN Raise("TypeError") /\ kwargs' = kwargs
       ELSE /\ kwargs' = [k \in Keywords |->
                            IF k = "function_space" THEN Parameter(kwargs, k) ELSE Absent]
            /\ pc' = "metric_relaxation"
            /\ result' = result
    /\ UNCHANGED <<returned, metrics, call, average, notCombineVars>>

MetricRelaxation ==
    /\ pc = "metric_relaxation"
    /\ Return(metric_relaxation(metrics, kwargs))
    /\ UNCHANGED <<metrics, combineLocals, notCombineVars>>

MetricIntersection ==
    /\ pc = "metric_intersection"
    /\ Return(metric_intersection(metrics, kwargs))
    /\ UNCHANGED <<metrics, combineLocals, notCombineVars>>

\* A call of combine_metrics, metric_relaxation, metric_average or
\* metric_intersection with *metrics and keywords
InitCombine ==
    /\ metrics \in MetricTuples
    /\ call \in [routine : {"combine_metrics", "metric_relaxation", "metric_average",
                            "metric_intersection"},
                 average : {Absent, True, False},
                 kwargs : KeywordArguments]
    /\ call.routine # "combine_metrics" => call.average = Absent
    /\ pc = call.routine
    /\ kwargs = call.kwargs
    /\ average = IF call.routine # "combine_metrics" THEN FALSE
                 ELSE IF call.average = Absent THEN TRUE ELSE call.average.value
    /\ returned = "none"
    /\ result = "none"
    /\ d = 0 /\ p = Idle /\ target = 0
    /\ IndicatorIdle /\ ComplexityIdle /\ NormaliseIdle /\ ConstraintsIdle /\ ConstructorsIdle

NextCombine ==
    \/ CombineMetrics
    \/ MetricAverage
    \/ MetricRelaxation
    \/ MetricIntersection

SpecCombine == InitCombine /\ [][NextCombine]_vars

\* kwargs without the keyword k
Without(kw, k) == [j \in Keywords |-> IF j = k THEN Absent ELSE kw[j]]

\* What the claim says a call of combine_metrics returns
Dispatched ==
    IF call.average \in {Absent, True}
    THEN metric_relaxation(metrics, Without(call.kwargs, "boundary_tag"))
    ELSE metric_intersection(metrics, Without(call.kwargs, "weights"))

(***************************************************************************)
(* C9: combine_metrics returns (or raises) exactly what metric_relaxation  *)
(* does with the same metrics and the keywords without boundary_tag when   *)
(* average is true or absent, and exactly what metric_intersection does    *)
(* with the keywords without weights when average is false; the keyword    *)
(* that does not matter to the chosen routine changes nothing.             *)
(***************************************************************************)
C9_CombineDispatches ==
    (Returned /\ call.routine = "combine_metrics") =>
        /\ result = Dispatched.result
        /\ result = "metric" => returned = Dispatched.returned

\* An average with the caller's weights was returned though boundary_tag was
\* supplied too
C9_Witness ==
    /\ Returned /\ call.routine = "combine_metrics" /\ result = "metric"
    /\ Len(metrics) > 1
    /\ call.average = Absent
    /\ call.kwargs.boundary_tag = Tag(1)
    /\ call.kwargs.weights \in WeightLists

\* The weights the caller supplied, None when none were
SuppliedWeights == Parameter(call.kwargs, "weights")

\* A call of metric_relaxation with n >= 1 metrics of one space, and no keyword
\* it does not take
RelaxationCall ==
    /\ call.routine = "metric_relaxation"
    /\ Supplied(call.kwargs) \subseteq {"weights", "function_space"}
    /\ Len(metrics) >= 1
    /\ \A i \in 1..Len(metrics) : metrics[i].space = metrics[1].space

(***************************************************************************)
(* C10: metric_relaxation over n >= 1 metrics gives every metric the       *)
(* weight 1/n when no weights are supplied, and raises a ValueError,       *)
(* returning no metric, whenever the supplied weights are a sequence whose *)
(* length is not n.                                                        *)
(***************************************************************************)
C10_UniformOrValueError ==
    (Returned /\ RelaxationCall) =>
        /\ SuppliedWeights = None =>
                /\ result = "metric"
                /\ \A i \in 1..Len(metrics) :
                        returned.sum[i].weight = Rational(1, Len(metrics))
        /\ (SuppliedWeights # None /\ Len(SuppliedWeights.items) # Len(metrics)) =>
                result = "ValueError" /\ returned = "none"

\* A call of metric_relaxation or metric_intersection itself, with no keyword
\* the routine does not take and with metrics of one space
DirectCombination ==
    /\ \/ call.routine = "metric_relaxation"
          /\ Supplied(call.kwargs) \subseteq {"weights", "function_space"}
       \/ call.routine = "metric_intersection"
          /\ Supplied(call.kwargs) \subseteq {"function_space", "boundary_tag"}
    /\ \A i \in 1..Len(metrics) : metrics[i].space = metrics[1].space

(***************************************************************************)
(* C11: metric_relaxation and metric_intersection with zero metrics, and   *)
(* metric_intersection with boundary_tag equal to the empty list, fail     *)
(* with a ValueError and return no metric.                                 *)
(***************************************************************************)
C11_EmptyArgumentsAreValueErrors ==
    (Returned /\ DirectCombination) =>
        /\ Len(metrics) = 0 => (result = "ValueError" /\ returned = "none")
        /\ (call.routine = "metric_intersection" /\ call.kwargs.boundary_tag = List(<<>>)
                /\ Len(metrics) > 0) =>
                    (result = "ValueError" /\ returned = "none")

(***************************************************************************)
(* anisotropic_metric, anisotropic_dwr_metric and weighted_hessian_metric  *)
(* (src/pyroteus/metric.py).  A constructed metric is held as what it was  *)
(* built from, not as numbers.                                             *)
(***************************************************************************)
MaxIndicators == 2
MaxParameter == 1

\* A string given for a keyword
Str(x) == [kind |-> "str", value |-> x]

\* The error indicators or Hessians of a call: n of them in a list, all on a
\* mesh of dimension dim
FunctionList(n, dim) ==
    List([i \in 1..n |-> [kind |-> "Function", name |-> i, dim |-> dim]])

\* The keywords of a call of a metric constructor
ConstructorArguments ==
    [approach : {Absent, Str("anisotropic_dwr"), Str("weighted_hessian"), Str("other")},
     target_space : {Absent, TensorSpace(2)},
     interpolant : {Absent, Str("Clement"), Str("interpolate"), Str("L2"), Str("other")},
     target_complexity : {Absent} \cup {Number(x) : x \in (-1)..MaxParameter},
     convergence_rate : {Absent} \cup {Number(x) : x \in 0..(MaxParameter + 1)},
     average : {Absent, True, False}]

\* The default, whatever the caller supplied
Get_Default(kw, k, default) == default

\* kwargs.get(k, default), and the value a named parameter k is bound to
Get(kw, k, default) == IF kw[k] = Absent THEN default ELSE kw[k]

\* metric.py:107-134
AnisotropicMetric ==
    /\ pc = "anisotropic_metric"
    /\ LET approach == Get(kwargs, "approach", Str("anisotropic_dwr"))
       IN  /\ kwargs' = Pop(kwargs, "approach")
           /\ IF approach = Str("anisotropic_dwr")
              THEN pc' = "anisotropic_dwr_metric" /\ result' = result
              ELSE IF approach = Str("weighted_hessian")
              THEN pc' = "weighted_hessian_metric" /\ result' = result
              ELSE Raise("ValueError")
    /\ UNCHANGED <<returned, metrics, call, average, constructorLocals, notConstructorVars>>

\* metric.py:163-173; None > 0.0 is a TypeError
AnisotropicDwrCheck ==
    /\ pc = "anisotropic_dwr_metric"
    /\ LET isList == error_indicator.kind = "list"
           target_complexity == Get(kwargs, "target_complexity", None)
           convergence_rate == Get(kwargs, "convergence_rate", Number(1))
       IN  IF isList /\ Len(error_indicator.items) # Len(hessian.items)
           THEN Raise("AssertionError") /\ UNCHANGED constructorLocals
           ELSE IF isList /\ Len(error_indicator.items) = 0
           THEN Raise("IndexError") /\ UNCHANGED constructorLocals
           ELSE
           /\ error_indicator' = IF isList THEN error_indicator.items[1] ELSE error_indicator
           /\ hessian' = IF isList THEN hessian.items[1] ELSE hessian
           /\ IF target_complexity = None THEN Raise("TypeError")
              ELSE IF ~(target_complexity.value > 0) THEN Raise("AssertionError")
              ELSE IF hessian'.dim \notin {2, 3} THEN Raise("AssertionError")
              ELSE IF ~(convergence_rate.value >= 1) THEN Raise("AssertionError")
              ELSE pc' = "assemble_metric" /\ result' = result
    /\ UNCHANGED <<returned, metrics, combineLocals, notConstructorVars>>

\* metric.py:175-229
AnisotropicDwrAssemble ==
    /\ pc = "assemble_metric"
    /\ LET interpolant == Get(kwargs, "interpolant", Str("Clement"))
           target_space == Get(kwargs, "target_space", None)
       IN  IF interpolant \notin {Str("Clement"), Str("interpolate"), Str("project"), Str("L2")}
           THEN Raise("ValueError") /\ returned' = returned
           ELSE Return(Success(
                    [kind |-> "Function",
                     space |-> IF target_space # None THEN target_space
                               ELSE TensorSpace(hessian.dim),
                     error_indicator |-> error_indicator.name,
                     hessian |-> hessian.name,
                     target_complexity |-> kwargs.target_complexity.value,
                     convergence_rate |-> Get(kwargs, "convergence_rate", Number(1)).value,
                     interpolant |-> interpolant.value]))
    /\ UNCHANGED <<metrics, combineLocals, constructorLocals, notConstructorVars>>

\* An all-zero Function, as firedrake.Function(target_space) builds it
Zero == [kind |-> "zero"]

\* metric.py:251-280, up to the call of combine_metrics it ends with
WeightedHessianMetric ==
    /\ pc = "weighted_hessian_metric"
    /\ LET wrap(x) == IF x.kind # "list" THEN <<x>> ELSE x.items
           error_indicators == wrap(error_indicator)
           hessians == wrap(hessian)
           interpolant == Get(kwargs, "interpolant", Str("Clement"))
           given == Get(kwargs, "target_space", None)
           zipped == IF Len(error_indicators) < Len(hessians)
                     THEN Len(error_indicators) ELSE Len(hessians)
       IN  IF Len(hessians) = 0 THEN Raise("IndexError") /\ UNCHANGED <<metrics, average, kwargs>>
           ELSE IF hessians[1].dim \notin {2, 3}
           THEN Raise("AssertionError") /\ UNCHANGED <<metrics, average, kwargs>>
           ELSE IF zipped > 0 /\ interpolant \notin {Str("Clement"), Str("interpolate"),
                                                     Str("project"), Str("L2")}
           THEN Raise("ValueError") /\ UNCHANGED <<metrics, average, kwargs>>
           ELSE
           /\ metrics' = [i \in 1..Len(hessians) |->
                [kind |-> "Function",
                 name |-> i,
                 space |-> IF given # None THEN given ELSE TensorSpace(hessians[1].dim),
                 value |-> IF i <= zipped
                           THEN [kind |-> "product",
                                 error_indicator |-> error_indicators[i].name,
                                 hessian |-> hessians[i].name,
                                 interpolant |-> interpolant.value]
                           ELSE Zero]]
           /\ average' = Get(kwargs, "average", False).value
           /\ kwargs' = [k \in Keywords |-> Absent]
           /\ pc' = "combine_metrics"
           /\ result' = result
    /\ UNCHANGED <<returned, call, constructorLocals, notConstructorVars>>

\* A call of anisotropic_metric, anisotropic_dwr_metric or
\* weighted_hessian_metric; single Functions are given only where
\* weighted_hessian_metric is not reached
InitConstructors ==
    /\ call \in [routine : {"anisotropic_metric", "anisotropic_dwr_metric",
                            "weighted_hessian_metric"},
                 average : {Absent},
                 kwargs : ConstructorArguments]
    /\ call.routine # "anisotropic_metric" => call.kwargs.approach = Absent
    /\ pc = call.routine
    /\ kwargs = call.kwargs
    /\ \E dim \in 1..3 :
        \/ \E m, n \in 0..MaxIndicators :
            /\ error_indicator = FunctionList(m, dim)
            /\ hessian = FunctionList(n, dim)
        \/ /\ call.routine # "weighted_hessian_metric"
           /\ call.kwargs.approach # Str("weighted_hessian")
           /\ error_indicator = FunctionList(1, dim).items[1]
           /\ hessian = FunctionList(1, dim).items[1]
    /\ metrics = <<>>
    /\ average = FALSE
    /\ returned = "none"
    /\ result = "none"
    /\ d = 0 /\ p = Idle /\ target = 0
    /\ IndicatorIdle /\ ComplexityIdle /\ NormaliseIdle /\ ConstraintsIdle

NextConstructors ==
    \/ AnisotropicMetric
    \/ AnisotropicDwrCheck
    \/ AnisotropicDwrAssemble
    \/ WeightedHessianMetric
    \/ CombineMetrics
    \/ MetricRelaxation
    \/ MetricIntersection

SpecConstructors == InitConstructors /\ [][NextConstructors]_vars

\* The approach a call of anisotropic_metric asks for
Approach ==
    IF kwargs.approach = Absent THEN Str("anisotropic_dwr") ELSE kwargs.approach

(***************************************************************************)
(* C12: anisotropic_metric goes on to anisotropic_dwr_metric when approach *)
(* is 'anisotropic_dwr' or absent, to weighted_hessian_metric when it is   *)
(* 'weighted_hessian', and raises a ValueError, calling neither, for any   *)
(* other value; the constructor gets the caller's error_indicator and      *)
(* hessian and every keyword but approach, unchanged.                      *)
(***************************************************************************)
C12_DispatchOnApproach ==
    [][pc = "anisotropic_metric" =>
        /\ Approach = Str("anisotropic_dwr") => pc' = "anisotropic_dwr_metric"
        /\ Approach = Str("weighted_hessian") => pc' = "weighted_hessian_metric"
        /\ Approach \notin {Str("anisotropic_dwr"), Str("weighted_hessian")} =>
                (pc' = "done" /\ result' = "ValueError" /\ returned' = "none")
        /\ kwargs'.approach = Absent
        /\ \A k \in DOMAIN kwargs \ {"approach"} : kwargs'[k] = kwargs[k]
        /\ error_indicator' = error_indicator /\ hessian' = hessian]_vars

\* weighted_hessian_metric was entered from anisotropic_metric, with other
\* keywords supplied
C12_Witness ==
    /\ pc = "weighted_hessian_metric"
    /\ call.routine = "anisotropic_metric"
    /\ call.kwargs.approach = Str("weighted_hessian")
    /\ kwargs.approach = Absent
    /\ kwargs.average = True /\ kwargs.interpolant = Str("L2")

\* A call of anisotropic_dwr_metric itself with at least one error indicator
\* and as many Hessians
DwrMetricCall ==
    /\ call.routine = "anisotropic_dwr_metric"
    /\ error_indicator.kind = "list" =>
            (Len(error_indicator.items) > 0 /\ Len(error_indicator.items) = Len(hessian.items))

(***************************************************************************)
(* C13: anisotropic_dwr_metric fails with an assertion, returning no       *)
(* metric, whenever target_complexity is zero, negative or not supplied,   *)
(* or convergence_rate is below 1; a convergence_rate that is omitted      *)
(* counts as 1.                                                            *)
(***************************************************************************)
C13_AssertsOnParameters ==
    (Returned /\ DwrMetricCall) =>
        /\ (\/ call.kwargs.target_complexity = Absent
            \/ call.kwargs.target_complexity.value <= 0
            \/ (call.kwargs.convergence_rate # Absent
                    /\ call.kwargs.convergence_rate.value < 1)) =>
                (result = "AssertionError" /\ returned = "none")
        /\ (result = "metric" /\ call.kwargs.convergence_rate = Absent) =>
                returned.convergence_rate = 1

(***************************************************************************)
(* isotropic_metric (src/pyroteus/metric.py).                              *)
(***************************************************************************)

\* A finite element: its family and degree
Element(family, degree) == [family |-> family, degree |-> degree]

Elements ==
    {Element(f, n) : f \in {"Lagrange", "Discontinuous Lagrange", "Raviart-Thomas"}, n \in 0..2}
        \ {Element("Lagrange", 0)}

\* family == 'Discontinuous Lagrange', whatever the degree
IsP0_AnyDegree(e) == e.family = "Discontinuous Lagrange"

\* not (family != 'Discontinuous Lagrange' or degree != 0)
IsP0(e) == e.family = "Discontinuous Lagrange" /\ e.degree = 0

\* not (family != 'Lagrange' or degree != 1)
IsP1(e) == e.family = "Lagrange" /\ e.degree = 1

\* metric.py:53-58
IsotropicCheck ==
    /\ pc = "isotropic_metric"
    /\ LET target_space == Get(kwargs, "target_space", None)
       IN  IF error_indicator.dim \notin {2, 3} THEN Raise("AssertionError")
           ELSE IF target_space # None /\ ~IsP1(target_space) THEN Raise("AssertionError")
           ELSE pc' = "interpolate_indicator" /\ result' = result
    /\ UNCHANGED <<returned, metrics, combineLocals, constructorLocals, notConstructorVars>>

\* metric.py:60-78
IsotropicInterpolate ==
    /\ pc = "interpolate_indicator"
    /\ LET interpolant == Get(kwargs, "interpolant", Str("Clement"))
           clement == interpolant = Str("Clement")
           metric_of(averaged, projected) ==
                [kind |-> "Function",
                 space |-> Element("Lagrange", 1),
                 error_indicator |-> error_indicator.name,
                 patch_averaged |-> averaged,
                 projected |-> projected]
       IN  IF clement /\ error_indicator.kind # "Function"
           THEN Raise("NotImplementedError") /\ returned' = returned
           ELSE IF clement /\ ~IsP1(error_indicator.element) /\ ~IsP0(error_indicator.element)
           THEN Raise("ValueError") /\ returned' = returned
           ELSE IF interpolant \in {Str("Clement"), Str("interpolate")}
           THEN Return(Success(metric_of(clement /\ ~IsP1(error_indicator.element), FALSE)))
           ELSE IF interpolant \in {Str("L2"), Str("project")}
           THEN Return(Success(metric_of(FALSE, TRUE)))
           ELSE Raise("ValueError") /\ returned' = returned
    /\ UNCHANGED <<metrics, combineLocals, constructorLocals, notConstructorVars>>

\* A call of isotropic_metric(error_indicator, target_space, interpolant)
InitIsotropic ==
    /\ call \in [routine : {"isotropic_metric"},
                 average : {Absent},
                 kwargs : [target_space : {Absent, None} \cup Elements,
                           interpolant : {Absent} \cup
                                {Str(x) : x \in {"Clement", "interpolate", "L2", "project",
                                                 "other"}}]]
    /\ pc = call.routine
    /\ kwargs = call.kwargs
    /\ error_indicator \in [kind : {"Function", "expression"}, name : {1},
                            element : Elements, dim : 1..3]
    /\ hessian = Idle
    /\ metrics = <<>>
    /\ average = FALSE
    /\ returned = "none"
    /\ result = "none"
    /\ d = 0 /\ p = Idle /\ target = 0
    /\ IndicatorIdle /\ ComplexityIdle /\ NormaliseIdle /\ ConstraintsIdle

NextIsotropic ==
    \/ IsotropicCheck
    \/ IsotropicInterpolate

SpecIsotropic == InitIsotropic /\ [][NextIsotropic]_vars

\* The interpolant a call of isotropic_metric names
Interpolant ==
    IF call.kwargs.interpolant = Absent THEN Str("Clement") ELSE call.kwargs.interpolant

\* What the claim says of a call of isotropic_metric that has ended
IsotropicValueErrors ==
    /\ Interpolant \notin {Str("Clement"), Str("interpolate"), Str("L2"), Str("project")} =>
            result = "ValueError"
    /\ (Interpolant = Str("Clement") /\ error_indicator.kind = "Function"
            /\ error_indicator.element \notin {Element("Lagrange", 1),
                                               Element("Discontinuous Lagrange", 0)}) =>
            result = "ValueError"
    /\ (Interpolant = Str("Clement") /\ result = "metric") =>
            (returned.patch_averaged <=> error_indicator.element.degree = 0)

AssertionsPass ==
    /\ error_indicator.dim \in {2, 3}
    /\ call.kwargs.target_space \in {Absent, None, Element("Lagrange", 1)}

MaxEntry == 1

\* 1/rtol for the default rtol=1.0e-08 of is_symmetric
InverseRtol == 100000000

\* The 2x2 matrices, and the 3x3 matrices [[a, b, 0], [c, e, 0], [0, 0, f]],
\* with entries in range
Matrices(dim) ==
    {[i \in 1..dim |-> [j \in 1..dim |->
            IF i <= 2 /\ j <= 2 THEN block[i][j] ELSE IF i = j THEN f ELSE 0]] :
        block \in {m \in [1..2 -> [1..2 -> (-1)..(MaxEntry + 1)]] :
                        m[1][2] \in 0..MaxEntry /\ m[2][1] \in 0..MaxEntry},
        f \in 0..1}

\* ufl.det of a matrix of up to three rows
Det(m) ==
    IF Len(m) = 1 THEN m[1][1]
    ELSE IF Len(m) = 2 THEN m[1][1] * m[2][2] - m[1][2] * m[2][1]
    ELSE m[1][1] * (m[2][2] * m[3][3] - m[2][3] * m[3][2])
         - m[1][2] * (m[2][1] * m[3][3] - m[2][3] * m[3][1])
         + m[1][3] * (m[2][1] * m[3][2] - m[2][2] * m[3][1])

\* M - ufl.transpose(M)
MinusTranspose(m) == [i \in DOMAIN m |-> [j \in DOMAIN m |-> m[i][j] - m[j][i]]]

\* assemble(abs(f)*dx) for a scalar field f
AssembleAbs(f) ==
    LET RECURSIVE total(_)
        total(S) == IF S = {} THEN 0
                    ELSE LET v == CHOOSE v \in S : TRUE
                         IN  Abs(f[v]) + total(S \ {v})
    IN  total(DOMAIN f)

\* Every eigenvalue of the symmetric matrix m is positive: its leading
\* principal minors are
PositiveEigenvalues(m) ==
    \A n \in DOMAIN m : Det([i \in 1..n |-> [j \in 1..n |-> m[i][j]]]) > 0

\* m is its own transpose
Symmetric(m) == \A i, j \in DOMAIN m : m[i][j] = m[j][i]

\* What check_spd leaves alone
notSpdVars == <<d, p, target, indicatorVars, complexityLocals, normaliseLocals, metrics,
                constraintLocals, combineLocals, constructorLocals>>

\* metric.py:674-677 with is_symmetric, metric.py:638-639; when the integral of
\* |det(M)| is zero the quotient is a division by zero, which raises or gives
\* a nan or inf that is not below rtol, by the type assemble returns
IsSymmetric ==
    /\ pc = "check_spd"
    /\ LET err == AssembleAbs([v \in Vertices |-> Det(MinusTranspose(metric[v]))])
           norm == AssembleAbs([v \in Vertices |-> Det(metric[v])])
           fails == Raise("ValueError") /\ returned' = "FAIL: Matrix is not symmetric"
       IN  IF norm = 0
           THEN fails \/ (Raise("ZeroDivisionError") /\ returned' = returned)
           ELSE IF err * InverseRtol < norm
           THEN pc' = "is_pos_def" /\ UNCHANGED <<result, returned>>
           ELSE fails
    /\ UNCHANGED notSpdVars

\* metric.py:678-681 with is_pos_def, metric.py:649-656; the eigenvalues the
\* kernel gives for a matrix that is not symmetric are not known
IsPosDef ==
    /\ pc = "is_pos_def"
    /\ LET passes == result' = "None" /\ pc' = "done" /\ returned' = returned
           fails == Raise("ValueError") /\ returned' = "FAIL: Matrix is not positive-definite"
       IN  IF \E v \in Vertices : ~Symmetric(metric[v])
           THEN passes \/ fails
           ELSE IF \A v \in Vertices : PositiveEigenvalues(metric[v])
           THEN passes
           ELSE fails
    /\ UNCHANGED notSpdVars

\* A call of check_spd(M) with a field M of 2x2 or of 3x3 matrices
InitSpd ==
    /\ pc = "check_spd"
    /\ \E dim \in {2, 3} : metric \in [Vertices -> Matrices(dim)]
    /\ call = [routine |-> "check_spd", M |-> metric]
    /\ mesh = Idle /\ global_factor = Idle /\ boundary = FALSE /\ integral = Idle
    /\ average = FALSE /\ kwargs = <<>>
    /\ metrics = <<>>
    /\ returned = "none"
    /\ result = "none"
    /\ d = 0 /\ p = Idle /\ target = 0
    /\ IndicatorIdle /\ ComplexityIdle /\ ConstraintsIdle /\ ConstructorsIdle

NextSpd ==
    \/ IsSymmetric
    \/ IsPosDef

SpecSpd == InitSpd /\ [][NextSpd]_vars

(***************************************************************************)
(* C15: check_spd(M) raises a ValueError naming symmetry for every M that  *)
(* differs from its transpose at some entity, a ValueError naming          *)
(* positive-definiteness for every symmetric M with an eigenvalue that is  *)
(* not positive at some entity, returns normally for an SPD M, and never   *)
(* modifies M.                                                             *)
(***************************************************************************)
C15_CheckSpdReports ==
    (Returned /\ call.routine = "check_spd") =>
        /\ (\E v \in Vertices : ~Symmetric(call.M[v])) =>
                (result = "ValueError" /\ returned = "FAIL: Matrix is not symmetric")
        /\ ((\A v \in Vertices : Symmetric(call.M[v]))
                /\ \E v \in Vertices : ~PositiveEigenvalues(call.M[v])) =>
                (result = "ValueError" /\ returned = "FAIL: Matrix is not positive-definite")
        /\ (\A v \in Vertices : Symmetric(call.M[v]) /\ PositiveEigenvalues(call.M[v])) =>
                result = "None"
        /\ metric = call.M

(***************************************************************************)
(* space_time_normalise (src/pyroteus/metric.py).  The metrics are         *)
(* constant and isotropic, held by their eigenvalues as in                 *)
(* space_normalise; a sum of integrals is held as the list of its terms.   *)
(***************************************************************************)
MaxSubintervals == 2
MaxTimestep == 2

\* What space_time_normalise leaves alone
notSpaceTimeVars == <<p, target, metric, mesh, boundary, indicatorVars, complexityLocals,
                      h_min, h_max, a_max, hmin, hmax, amax, optimise, boundary_tag,
                      combineLocals, constructorLocals>>

\* end_time/dt, the number of subintervals forgotten
Tau_WholeInterval(end_time, num_subintervals, dt) == [num |-> end_time, den |-> dt]

\* end_time/num_subintervals/dt, a number
Tau(end_time, num_subintervals, dt) == [num |-> end_time, den |-> num_subintervals * dt]

\* pow(tau**2*detM, exponent), which tau*sqrt(detM) is with exponent 1/2
PowTauDet(tau, detM, exponent) == [tau |-> tau, detM |-> detM, exponent |-> exponent]

\* global_norm*determinant*M
Rescaled(M, global_norm, determinant) ==
    [kind |-> "rescaled", metric |-> M, global_norm |-> global_norm,
     determinant |-> determinant]

\* metric.py:391-401
SpaceTimeCheck ==
    /\ pc = "space_time_normalise"
    /\ IF ~(p.inf \/ p.value >= 1)
       THEN Raise("AssertionError") /\ UNCHANGED <<d, integral>>
       ELSE IF Len(call.timesteps) # Len(metrics)
       THEN Raise("AssertionError") /\ UNCHANGED <<d, integral>>
       ELSE IF Len(metrics) = 0
       THEN Raise("IndexError") /\ UNCHANGED <<d, integral>>
       ELSE /\ d' = Len(metrics[1])
            /\ integral' = <<>>
            /\ pc' = "integrate" /\ result' = result
    /\ UNCHANGED <<returned, metrics, global_factor, position, notSpaceTimeVars>>

\* metric.py:402-408: one turn of the first loop, or the factor after it
SpaceTimeIntegrate ==
    /\ pc = "integrate"
    /\ IF position < Len(metrics)
       THEN LET i == position + 1
                tau == Tau(call.end_time, Len(metrics), call.timesteps[i])
            IN  /\ integral' = Append(integral,
                        PowTauDet(tau, det(metrics[i]), IntegrandExponent(p, d)))
                /\ position' = i
                /\ UNCHANGED <<pc, global_factor>>
       ELSE /\ global_factor' = [target |-> target, integral |-> integral,
                                 exponent |-> Rational(2, d)]
            /\ position' = 0
            /\ pc' = "normalise_subinterval"
            /\ integral' = integral
    /\ UNCHANGED <<result, returned, d, metrics, notSpaceTimeVars>>

\* metric.py:411-414: one turn of the second loop, or the return after it
SpaceTimeRescale ==
    /\ pc = "normalise_subinterval"
    /\ IF position < Len(metrics)
       THEN LET i == position + 1
                tau == Tau(call.end_time, Len(metrics), call.timesteps[i])
                determinant == IF p.inf THEN One
                               ELSE PowTauDet(tau, det(metrics[i]),
                                              Rational(-1, 2 * p.value + d))
            IN  /\ metrics' = [metrics EXCEPT ![i] = Rescaled(@, global_factor, determinant)]
                /\ position' = i
                /\ UNCHANGED <<pc, result, returned>>
       ELSE /\ returned' = metrics
            /\ result' = "metrics"
            /\ pc' = "done"
            /\ UNCHANGED <<metrics, position>>
    /\ UNCHANGED <<d, integral, global_factor, notSpaceTimeVars>>

\* A call of space_time_normalise(metrics, end_time, timesteps, target, p)
InitSpaceTime ==
    /\ pc = "space_time_normalise"
    /\ \E dim \in {2, 3}, n \in 0..MaxSubintervals :
            metrics \in [1..n -> {[i \in 1..dim |-> e] : e \in PowersOfTwo(-MaxExponent, MaxExponent)}]
    /\ \E n \in 0..MaxSubintervals :
        call \in [routine : {"space_time_normalise"},
                  metrics : {metrics},
                  end_time : {MaxTimestep},
                  timesteps : [1..n -> 1..MaxTimestep]]
    /\ target \in PowersOfTwo(0, MaxExponent)
    /\ p \in Orders
    /\ d = 0
    /\ integral = Idle /\ global_factor = Idle /\ position = 0
    /\ metric = <<>> /\ mesh = Idle /\ boundary = FALSE
    /\ h_min = Idle /\ h_max = Idle /\ a_max = Idle
    /\ hmin = Idle /\ hmax = Idle /\ amax = Idle
    /\ optimise = FALSE /\ boundary_tag = Idle
    /\ average = FALSE /\ kwargs = <<>>
    /\ returned = "none"
    /\ result = "none"
    /\ IndicatorIdle /\ ComplexityIdle /\ ConstructorsIdle

NextSpaceTime ==
    \/ SpaceTimeCheck
    \/ SpaceTimeIntegrate
    \/ SpaceTimeRescale

SpecSpaceTime == InitSpaceTime /\ [][NextSpaceTime]_vars

\* tau_i = end_time / num_subintervals / dt_i of the call
TauOfCall(i) ==
    [num |-> call.end_time, den |-> Len(call.metrics) * call.timesteps[i]]

\* The one factor the claim speaks of: target over the sum over the
\* subintervals of the integrals of the entry metrics' determinants, each
\* weighted by its tau, to the power 2/dim
FactorOfCall ==
    LET dim == Len(call.metrics[1])
    IN  [target |-> target,
         integral |-> [i \in 1..Len(call.metrics) |->
                        [tau |-> TauOfCall(i),
                         detM |-> det(call.metrics[i]),
                         exponent |-> IF p.inf THEN Rational(1, 2)
                                      ELSE Rational(p.value, 2 * p.value + dim)]],
         exponent |-> Rational(2, dim)]

(***************************************************************************)
(* C17: space_time_normalise fails with an assertion, having modified      *)
(* nothing, when the numbers of timesteps and of metrics differ or p is    *)
(* neither 'inf' nor >= 1; otherwise it modifies no metric before it has   *)
(* the one global factor, computed from the determinants of all metrics as *)
(* they were on entry, each weighted by tau_i = end_time /                 *)
(* num_subintervals / dt_i, and then rescales every metric in place with   *)
(* that factor.                                                            *)
(***************************************************************************)
C17_OneFactorFromEntryMetrics ==
    call.routine = "space_time_normalise" =>
        /\ (Returned /\ (~(p.inf \/ p.value >= 1) \/ Len(call.timesteps) # Len(call.metrics))) =>
                (result = "AssertionError" /\ metrics = call.metrics)
        /\ pc \in {"space_time_normalise", "integrate"} => metrics = call.metrics
        /\ pc = "normalise_subinterval" =>
                /\ global_factor = FactorOfCall
                /\ \A i \in 1..Len(metrics) :
                        IF i <= position THEN metrics[i].global_norm = FactorOfCall
                                              /\ metrics[i].metric = call.metrics[i]
                        ELSE metrics[i] = call.metrics[i]
        /\ (Returned /\ result = "metrics") =>
                /\ returned = metrics
                /\ \A i \in 1..Len(metrics) :
                        /\ metrics[i].global_norm = FactorOfCall
                        /\ metrics[i].metric = call.metrics[i]
                        /\ metrics[i].determinant =
                                IF p.inf THEN One
                                ELSE [tau |-> TauOfCall(i),
                                      detM |-> det(call.metrics[i]),
                                      exponent |-> Rational(-1, 2 * p.value + Len(call.metrics[i]))]

\* Two metrics with different determinants and timesteps were rescaled, for
\* finite p
C17_Witness ==
    /\ call.routine = "space_time_normalise"
    /\ Returned /\ result = "metrics"
    /\ Len(metrics) = 2
    /\ ~p.inf
    /\ call.metrics[1] # call.metrics[2]
    /\ call.timesteps[1] # call.timesteps[2]

\* The metrics the caller of enforce_element_constraints supplied, in order
SuppliedMetrics ==
    IF call.metrics.kind = "Function" THEN <<call.metrics>> ELSE call.metrics.items

C20_ChecksBetweenClamps ==
    (call.routine = "enforce_element_constraints" /\ ~optimise
        /\ (pc = "check_values" \/ (Returned /\ result = "AssertionError"))) =>
        \A j \in 1..Len(metrics.items) :
            /\ j < position =>
                    /\ metrics.items[j].name = SuppliedMetrics[j].name
                    /\ metrics.items[j].clamped = 1
            /\ j >= position => metrics.items[j] = SuppliedMetrics[j]

\* The check failed for the second metric, after the first was clamped
C20_Witness ==
    /\ call.routine = "enforce_element_constraints" /\ ~optimise
    /\ Returned /\ result = "AssertionError"
    /\ position = 2
    /\ Len(metrics.items) = 2
    /\ metrics.items[1].clamped = 1

(***************************************************************************)
(* metric_intersection, entity by entity.  A tensor field is held by its   *)
(* value at each of two entities, the second of which lies on the tagged   *)
(* boundary.  The kernel applied by the par_loop is kept as a term of its  *)
(* two read arguments, so that the order and the nesting of the pairwise   *)
(* intersections can be told apart.                                        *)
(***************************************************************************)
\* A matrix held by a supplied metric at one entity
Matrix(x) == [kind |-> "matrix", entry |-> x]

\* The value kernels.intersect writes for the read values A and B
intersect(A, B) == [kind |-> "intersect", M1 |-> A, M2 |-> B]

\* The metric at place i of *metrics, with its data
MetricField(i, V, dat) == [kind |-> "Function", name |-> i, space |-> V, dat |-> dat]

\* firedrake.Function(M): a new Function with a copy of the data of M
CopyOf(M, name) == [M EXCEPT !.name = name]

\* The entities the par_loop visits
NodeSet(tag) == IF tag = None THEN Vertices ELSE {"v2"}

\* intersect_pair, with the first metric on both sides of the kernel
intersect_pair_Self(M1, M2, node_set, name) ==
    [CopyOf(M1, name) EXCEPT
        !.dat = [v \in Vertices |-> IF v \in node_set THEN intersect(M1.dat[v], M1.dat[v])
                                    ELSE M1.dat[v]]]

\* intersect_pair(M1, M2) of metric_intersection
intersect_pair(M1, M2, node_set, name) ==
    [CopyOf(M1, name) EXCEPT
        !.dat = [v \in Vertices |-> IF v \in node_set THEN intersect(M1.dat[v], M2.dat[v])
                                    ELSE M1.dat[v]]]

notIntersectionVars == <<d, p, target, mesh, global_factor, boundary, integral, indicatorVars,
                         complexityLocals, h_min, h_max, a_max, hmin, hmax, amax, optimise,
                         boundary_tag, average, kwargs, constructorLocals>>

\* metric.py:513-526
IntersectionSetup ==
    /\ pc = "metric_intersection"
    /\ LET n == Len(metrics)
           function_space == call.function_space
           tag == call.boundary_tag
       IN  IF ~(n > 0) THEN Raise("AssertionError") /\ UNCHANGED <<metric, position>>
           ELSE
           LET fs == IF function_space # None THEN function_space ELSE metrics[1].space
           IN  IF NothingToInterpolateInto(metrics, fs, function_space)
               THEN Raise("InterpolationError") /\ UNCHANGED <<metric, position>>
               ELSE IF tag = List(<<>>)
               THEN Raise("ValueError") /\ UNCHANGED <<metric, position>>
               ELSE IF fs.dim \notin {2, 3}
               THEN Raise("AssertionError") /\ UNCHANGED <<metric, position>>
               ELSE /\ metric' = CopyOf(metrics[1], n + 1)
                    /\ position' = 2
                    /\ pc' = "intersect_pair"
                    /\ result' = result
    /\ UNCHANGED <<returned, metrics, call, notIntersectionVars>>

\* metric.py:534-536
IntersectPair ==
    /\ pc = "intersect_pair"
    /\ IF position > Len(metrics)
       THEN /\ returned' = metric
            /\ result' = "metric"
            /\ pc' = "done"
            /\ UNCHANGED <<metric, position>>
       ELSE /\ metric' = intersect_pair(metric, metrics[position], NodeSet(call.boundary_tag),
                                        Len(metrics) + position)
            /\ position' = position + 1
            /\ UNCHANGED <<pc, result, returned>>
    /\ UNCHANGED <<metrics, call, notIntersectionVars>>

\* A call of metric_intersection(*metrics, function_space=..., boundary_tag=...)
\* with metrics of one space
InitIntersection ==
    /\ pc = "metric_intersection"
    /\ \E n \in 0..(MaxMetrics + 1), V \in TensorSpaces :
        /\ \E dats \in [1..n -> [Vertices -> {Matrix(x) : x \in 0..MaxEntry}]] :
                metrics = [i \in 1..n |-> MetricField(i, V, dats[i])]
        /\ call \in [routine : {"metric_intersection"},
                     metrics : {metrics},
                     function_space : {None, V},
                     boundary_tag : {None, Tag(1), List(<<>>)}]
    /\ metric = <<>> /\ position = 0
    /\ returned = "none" /\ result = "none"
    /\ d = 0 /\ p = Idle /\ target = 0
    /\ mesh = Idle /\ global_factor = Idle /\ boundary = FALSE /\ integral = Idle
    /\ h_min = Idle /\ h_max = Idle /\ a_max = Idle
    /\ hmin = Idle /\ hmax = Idle /\ amax = Idle
    /\ optimise = FALSE /\ boundary_tag = Idle
    /\ average = FALSE /\ kwargs = <<>>
    /\ IndicatorIdle /\ ComplexityIdle /\ ConstructorsIdle

NextIntersection == IntersectionSetup \/ IntersectPair

SpecIntersection == InitIntersection /\ [][NextIntersection]_vars

\* The entities the caller of metric_intersection selected
Selected == IF call.boundary_tag = None THEN Vertices ELSE {"v2"}

\* intersect(...intersect(intersect(m1, m2), m3)..., mk) at entity v
RECURSIVE Fold(_, _, _)
Fold(ms, v, k) ==
    IF k = 1 THEN ms[1].dat[v] ELSE intersect(Fold(ms, v, k - 1), ms[k].dat[v])

PassedToCombine ==
    /\ call.routine \in {"weighted_hessian_metric", "anisotropic_metric"}
    /\ pc = "combine_metrics"

(***************************************************************************)
(* C21: what weighted_hessian_metric passes to combine_metrics is one      *)
(* metric for each supplied Hessian, and each of them holds the product of *)
(* the lifted indicator and the Hessian of its own place, however many     *)
(* indicators and Hessians were supplied.                                  *)
(***************************************************************************)
C21_OneWeightedMetricPerHessian ==
    PassedToCombine =>
        /\ Len(metrics) = Len(hessian.items)
        /\ \A i \in 1..Len(metrics) :
                /\ metrics[i].value.kind = "product"
                /\ metrics[i].value.hessian = hessian.items[i].name
                /\ i <= Len(error_indicator.items)
                /\ metrics[i].value.error_indicator = error_indicator.items[i].name

(***************************************************************************)
(* The order of the checks of get_dwr_indicator, told from the arguments   *)
(* the caller gave.                                                        *)
(***************************************************************************)
\* A single function space was given for other than one component
WrongArity == IsWithGeometry(test_space_in) /\ Len(Components) # 1

\* The first of the four checks that component i fails, or "ok"
ComponentFailure(i) ==
    IF MissingKey(i) THEN "ValueError"
    ELSE IF BadEntry(i) THEN "TypeError"
    ELSE IF AdjointErrorMeshDiffers(i) THEN "ValueError"
    ELSE IF TestSpaceMeshDiffers(i) THEN "ValueError"
    ELSE "ok"

FailingComponents == {i \in DOMAIN Components : ComponentFailure(i) # "ok"}

FirstFailingComponent ==
    CHOOSE i \in FailingComponents : \A j \in FailingComponents : i <= j

\* The exception of the first check that fails, in the order F, adjoint_error,
\* test_space, then component by component; "ok" when none fails
FirstFailure ==
    IF NotForm THEN "TypeError"
    ELSE IF BadAdjointError THEN "TypeError"
    ELSE IF WrongArity THEN "ValueError"
    ELSE IF BadTestSpace THEN "TypeError"
    ELSE IF FailingComponents # {} THEN ComponentFailure(FirstFailingComponent)
    ELSE "ok"

\* The substitution of the test functions has been made
Substituted == form # Idle

ChecksInOrder ==
    DwrCall =>
        /\ (Returned /\ FirstFailure # "ok") =>
                (result = FirstFailure /\ ~Substituted /\ rhs = <<>>)
        /\ (Substituted \/ pc \in {"apply_mapping", "form2indicator"}) =>
                (/\ FirstFailure = "ok"
                 /\ Len(mapping) = Len(Components)
                 /\ \A i \in 1..Len(mapping) : mapping[i].err = Components[i])
        /\ Substituted => form = replace(F, mapping)

(***************************************************************************)
(* C22: get_dwr_indicator checks the type of F, the type of adjoint_error, *)
(* the type and arity of test_space, and then, for each component of       *)
(* adjoint_error in iteration order, that test_space has its key           *)
(* (ValueError), that the entry is a function space (TypeError), that the  *)
(* mesh of the adjoint error is the form's (ValueError) and that the mesh  *)
(* of the test space is the form's (ValueError); the first check that      *)
(* fails gives the exception raised; the test functions are substituted    *)
(* and form2indicator is called only when every check of every component   *)
(* has passed; and no step changes the adjoint_error or test_space of the  *)
(* caller.                                                                 *)
(***************************************************************************)
C22_FirstFailingCheckDecides ==
    /\ []ChecksInOrder
    /\ [][adjoint_error_in' = adjoint_error_in /\ test_space_in' = test_space_in]_vars

\* The second of two components has an entry that is not a function space and
\* an adjoint error on another mesh, after the first passed its checks
C22_Witness ==
    /\ DwrCall /\ Returned /\ IsForm(F)
    /\ Len(Components) = 2
    /\ ComponentFailure(1) = "ok"
    /\ BadEntry(2) /\ AdjointErrorMeshDiffers(2)
    /\ result = "TypeError"
    /\ Len(mapping) = 1

====
